---- MODULE Spec2Model ----
(***************************************************************************)
(* Model of the blackbox flight-log decoder, src/src/parser.c.             *)
(*                                                                         *)
(* The state is the flightLog_t object (with its private part) as          *)
(* flightLogParse leaves it between two steps of its main loop, the local  *)
(* variables of flightLogParse, and the trace of callbacks issued so far.  *)
(* Bytes are naturals 0..255. A 32-bit quantity is represented by its value *)
(* as an int32_t, in -2^31 .. 2^31 - 1, whether the code holds it in an    *)
(* int32_t or in a uint32_t (TLC's integers are 32 bits wide); arithmetic  *)
(* on it wraps modulo 2^32 and unsigned comparisons are spelled out.       *)
(* Pointers into the history ring are slot numbers 1..3, NULL is 0.        *)
(***************************************************************************)
EXTENDS Integers, Sequences, FiniteSets, TLC

\* ------------------------------------------------------------------------
\* Bounds of the model
\* ------------------------------------------------------------------------

\* longest session data section explored
MaxLen == 6

\* the largest number of chunks of a session that is built from whole chunks
MaxFrames == 4

\* ------------------------------------------------------------------------
\* Constants of the program
\* ------------------------------------------------------------------------

EOF == -1
NULL == 0

MarkerI == 73
MarkerP == 80
MarkerG == 71
MarkerH == 72
MarkerE == 69

PARSER_STATE_HEADER == "HEADER"
PARSER_STATE_DATA == "DATA"

\* parser.h is not part of the sources at hand: the two capacities below are
\* kept as small as the modelled frame definitions allow, so that frames
\* longer than the limit occur in short inputs.
FLIGHT_LOG_MAX_FRAME_LENGTH == 3
FLIGHT_LOG_MAX_FIELDS == 4

FLIGHT_LOG_FIELD_INDEX_ITERATION == 1
FLIGHT_LOG_FIELD_INDEX_TIME == 2

FLIGHT_LOG_FIELD_PREDICTOR_0 == 0
FLIGHT_LOG_FIELD_PREDICTOR_PREVIOUS == 1
FLIGHT_LOG_FIELD_PREDICTOR_STRAIGHT_LINE == 2
FLIGHT_LOG_FIELD_PREDICTOR_AVERAGE_2 == 3
FLIGHT_LOG_FIELD_PREDICTOR_MINTHROTTLE == 4
FLIGHT_LOG_FIELD_PREDICTOR_MOTOR_0 == 5
FLIGHT_LOG_FIELD_PREDICTOR_INC == 6
FLIGHT_LOG_FIELD_PREDICTOR_HOME_COORD == 7
FLIGHT_LOG_FIELD_PREDICTOR_1500 == 8
FLIGHT_LOG_FIELD_PREDICTOR_VBATREF == 9
FLIGHT_LOG_FIELD_PREDICTOR_HOME_COORD_1 == 256

FLIGHT_LOG_FIELD_ENCODING_SIGNED_VB == 0
FLIGHT_LOG_FIELD_ENCODING_UNSIGNED_VB == 1
FLIGHT_LOG_FIELD_ENCODING_NULL == 9

FLIGHT_LOG_EVENT_SYNC_BEEP == 0
FLIGHT_LOG_EVENT_AUTOTUNE_CYCLE_START == 10
FLIGHT_LOG_EVENT_AUTOTUNE_CYCLE_RESULT == 11

INT32_MAX == 2147483647
INT32_MIN == -2147483647 - 1

\* a + b modulo 2^32, on int32_t representatives
Add32(a, b) ==
    IF b >= 0
    THEN IF a > INT32_MAX - b THEN (a + INT32_MIN) + (b + INT32_MIN) ELSE a + b
    ELSE IF a < INT32_MIN - b THEN (a - INT32_MIN) + (b - INT32_MIN) ELSE a + b

\* -a modulo 2^32
Neg32(a) == IF a = INT32_MIN THEN a ELSE -a

Sub32(a, b) == Add32(a, Neg32(b))

\* (uint32_t) a < (uint32_t) b
ULt32(a, b) == IF (a >= 0) = (b >= 0) THEN a < b ELSE b < 0

\* (uint32_t) a >> 1
Shr1(a) == IF a >= 0 THEN a \div 2 ELSE ((a - INT32_MIN) \div 2) + 1073741824

\* a variant of the signed halving that rounds down
SDiv2_Floor(a) == a \div 2

\* (int32_t) a / 2, which truncates towards zero
SDiv2(a) == IF a >= 0 THEN a \div 2 ELSE (a + 1) \div 2

\* (v << shift) modulo 2^32 for a 7-bit v and the shifts 0, 7, .., 28 of a varint
Shl7(v, shift) ==
    IF shift < 28 THEN v * (2 ^ shift)
    ELSE LET t == v % 16 IN (IF t >= 8 THEN t - 16 ELSE t) * 268435456

\* A statistic is an int64_t: it is kept as <<high, low>>, high the upper 32
\* bits (0 or -1 for the values that occur) and low the lower 32 bits.
FromU32(a) == <<0, a>>
FromS32(a) == <<IF a < 0 THEN -1 ELSE 0, a>>

\* x < y on int64_t
Lt64(x, y) == x[1] < y[1] \/ (x[1] = y[1] /\ ULt32(x[2], y[2]))

\* (uint8_t) of an int returned by readChar (EOF becomes 255)
U8(c) == c % 256

\* frameTypes[]: the markers of the five frame kinds
frameTypes == <<MarkerI, MarkerP, MarkerG, MarkerH, MarkerE>>

Markers == {frameTypes[k] : k \in 1..Len(frameTypes)}

\* getFrameType: the entry of frameTypes with this marker, or NULL
getFrameType(c) == IF c \in Markers THEN c ELSE NULL

\* ------------------------------------------------------------------------
\* Byte cursor
\* ------------------------------------------------------------------------

\* readChar: the byte under the cursor, advancing it; at the end of the
\* region EOF, setting the eof flag and leaving the cursor alone.
\* Positions are 0-based offsets into private.data.
readChar(log) ==
    IF log.private.logPos < log.private.logEnd
    THEN [log |-> [log EXCEPT !.private.logPos = @ + 1],
          c |-> log.private.data[log.private.logPos + 1]]
    ELSE [log |-> [log EXCEPT !.private.eof = TRUE], c |-> EOF]

\* a variant of unreadChar that leaves the cursor where it is
unreadChar_Stay(log) == log

unreadChar(log) == [log EXCEPT !.private.logPos = @ - 1]

\* ------------------------------------------------------------------------
\* Integer codecs
\* ------------------------------------------------------------------------

\* a variant of the loop of readUnsignedVB that returns what it has gathered
\* when the varint is too long
RECURSIVE readUnsignedVBLoop_KeepsOverlong(_, _, _, _)
readUnsignedVBLoop_KeepsOverlong(log, i, shift, result) ==
    IF i >= 5
    THEN [log |-> log, v |-> result]
    ELSE LET r == readChar(log) IN
         IF r.c = EOF
         THEN [log |-> r.log, v |-> 0]
         ELSE LET res == Add32(result, Shl7(r.c % 128, shift)) IN
              IF r.c < 128
              THEN [log |-> r.log, v |-> res]
              ELSE readUnsignedVBLoop_KeepsOverlong(r.log, i + 1, shift + 7, res)

RECURSIVE readUnsignedVBLoop(_, _, _, _)
readUnsignedVBLoop(log, i, shift, result) ==
    IF i >= 5
    THEN [log |-> log, v |-> 0]
    ELSE LET r == readChar(log) IN
         IF r.c = EOF
         THEN [log |-> r.log, v |-> 0]
         ELSE LET res == Add32(result, Shl7(r.c % 128, shift)) IN
              IF r.c < 128
              THEN [log |-> r.log, v |-> res]
              ELSE readUnsignedVBLoop(r.log, i + 1, shift + 7, res)

readUnsignedVB(log) == readUnsignedVBLoop(log, 0, 0, 0)

\* ZigZag decoding: (i >> 1) ^ -(int32_t)(i & 1)
ZigZag(i) == IF i % 2 = 0 THEN Shr1(i) ELSE -Shr1(i) - 1

readSignedVB(log) ==
    LET r == readUnsignedVB(log) IN [log |-> r.log, v |-> ZigZag(r.v)]

\* ------------------------------------------------------------------------
\* Iteration-rate filter
\* ------------------------------------------------------------------------

\* C's % on ints, b # 0: the remainder has the sign of the dividend and is
\* smaller than the divisor in magnitude
CRem(a, b) ==
    LET d == IF b < 0 THEN -b ELSE b
        r == a % d
    IN IF a >= 0 \/ r = 0 THEN r ELSE r - d

\* shouldHaveFrame; frameIndex arrives as an int32_t
shouldHaveFrame(log, frameIndex) ==
    CRem(CRem(frameIndex, log.frameIntervalI) + log.frameIntervalPNum - 1,
         log.frameIntervalPDenom) < log.frameIntervalPNum

\* the loops of parseIntraframe and parseInterframe that count the iterations
\* after `frameIndex` that the sampling rate left out
RECURSIVE countSkippedFrames(_, _, _)
countSkippedFrames(log, frameIndex, skippedFrames) ==
    IF shouldHaveFrame(log, frameIndex)
    THEN skippedFrames
    ELSE countSkippedFrames(log, Add32(frameIndex, 1), skippedFrames + 1)

\* ------------------------------------------------------------------------
\* Grouped codecs
\* ------------------------------------------------------------------------

FLIGHT_LOG_FIELD_ENCODING_TAG8_8SVB == 6
FLIGHT_LOG_FIELD_ENCODING_TAG2_3S32 == 7
FLIGHT_LOG_FIELD_ENCODING_TAG8_4S16 == 8

\* signExtend2Bit, signExtend4Bit, signExtend6Bit, signExtend24Bit and the
\* casts to int8_t and int16_t: the top bit of the `bits` wide v is its sign
signExtend(bits, v) == IF v >= 2 ^ (bits - 1) THEN v - 2 ^ bits ELSE v

\* (uint8_t) readChar(log): the end of the data reads as 255
readU8(log) == LET r == readChar(log) IN [log |-> r.log, c |-> U8(r.c)]

\* n bytes, the least significant first, as a signed integer of 8 n bits;
\* k bytes have been read into acc
RECURSIVE readLittleEndian(_, _, _, _)
readLittleEndian(log, n, k, acc) ==
    IF k >= n THEN [log |-> log, v |-> acc]
    ELSE LET r == readU8(log)
             byte == IF k + 1 = n THEN signExtend(8, r.c) ELSE r.c
         IN readLittleEndian(r.log, n, k + 1, acc + byte * (256 ^ k))

\* the selector 3 of readTag2_3S32: three values of 1 to 4 bytes each
RECURSIVE readTag2_3S32Wide(_, _, _, _)
readTag2_3S32Wide(log, leadByte, i, values) ==
    IF i >= 3 THEN [log |-> log, values |-> values]
    ELSE LET r == readLittleEndian(log, (leadByte % 4) + 1, 0, 0)
         IN readTag2_3S32Wide(r.log, leadByte \div 4, i + 1, Append(values, r.v))

readTag2_3S32(log) ==
    LET r0 == readU8(log)
        leadByte == r0.c
    IN CASE leadByte \div 64 = 0 ->
              [log |-> r0.log,
               values |-> <<signExtend(2, (leadByte \div 16) % 4),
                            signExtend(2, (leadByte \div 4) % 4),
                            signExtend(2, leadByte % 4)>>]
         [] leadByte \div 64 = 1 ->
              LET r1 == readU8(r0.log) IN
              [log |-> r1.log,
               values |-> <<signExtend(4, leadByte % 16),
                            signExtend(4, r1.c \div 16),
                            signExtend(4, r1.c % 16)>>]
         [] leadByte \div 64 = 2 ->
              LET r1 == readU8(r0.log)
                  r2 == readU8(r1.log)
              IN [log |-> r2.log,
                  values |-> <<signExtend(6, leadByte % 64),
                               signExtend(6, r1.c % 64),
                               signExtend(6, r2.c % 64)>>]
         [] OTHER -> readTag2_3S32Wide(r0.log, leadByte, 0, <<>>)

\* the loop of readTag8_4S16_v1; a 4-bit lane fills two values from one byte
\* and passes over the selector bits of the second
RECURSIVE readTag8_4S16_v1Loop(_, _, _, _)
readTag8_4S16_v1Loop(log, selector, i, values) ==
    IF i >= 4 THEN [log |-> log, values |-> values]
    ELSE CASE selector % 4 = 0 ->
                readTag8_4S16_v1Loop(log, selector \div 4, i + 1, Append(values, 0))
           [] selector % 4 = 1 ->
                LET r == readU8(log) IN
                readTag8_4S16_v1Loop(r.log, selector \div 16, i + 2,
                                     values \o <<signExtend(4, r.c % 16),
                                                 signExtend(4, r.c \div 16)>>)
           [] selector % 4 = 2 ->
                LET r == readU8(log) IN
                readTag8_4S16_v1Loop(r.log, selector \div 4, i + 1,
                                     Append(values, signExtend(8, r.c)))
           [] OTHER ->
                LET r1 == readU8(log)
                    r2 == readU8(r1.log)
                IN readTag8_4S16_v1Loop(r2.log, selector \div 4, i + 1,
                                        Append(values, signExtend(16, r1.c + 256 * r2.c)))

readTag8_4S16_v1(log) ==
    LET r == readU8(log) IN readTag8_4S16_v1Loop(r.log, r.c, 0, <<>>)

\* the loop of readTag8_4S16_v2: the values are packed on nibble boundaries,
\* `buffer` holds the byte whose low nibble is still unused when nibbleIndex
\* is 1
RECURSIVE readTag8_4S16_v2Loop(_, _, _, _, _, _)
readTag8_4S16_v2Loop(log, selector, i, values, nibbleIndex, buffer) ==
    IF i >= 4 THEN [log |-> log, values |-> values]
    ELSE CASE selector % 4 = 0 ->
                readTag8_4S16_v2Loop(log, selector \div 4, i + 1, Append(values, 0),
                                     nibbleIndex, buffer)
           [] selector % 4 = 1 ->
                IF nibbleIndex = 0
                THEN LET r == readU8(log) IN
                     readTag8_4S16_v2Loop(r.log, selector \div 4, i + 1,
                                          Append(values, signExtend(4, r.c \div 16)), 1, r.c)
                ELSE readTag8_4S16_v2Loop(log, selector \div 4, i + 1,
                                          Append(values, signExtend(4, buffer % 16)), 0, buffer)
           [] selector % 4 = 2 ->
                LET r == readU8(log) IN
                IF nibbleIndex = 0
                THEN readTag8_4S16_v2Loop(r.log, selector \div 4, i + 1,
                                          Append(values, signExtend(8, r.c)), 0, buffer)
                ELSE readTag8_4S16_v2Loop(r.log, selector \div 4, i + 1,
                                          Append(values,
                                                 signExtend(8, ((buffer * 16) % 256) + (r.c \div 16))),
                                          1, r.c)
           [] OTHER ->
                LET r1 == readU8(log)
                    r2 == readU8(r1.log)
                IN IF nibbleIndex = 0
                   THEN readTag8_4S16_v2Loop(r2.log, selector \div 4, i + 1,
                                             Append(values, signExtend(16, r1.c * 256 + r2.c)),
                                             0, buffer)
                   ELSE readTag8_4S16_v2Loop(r2.log, selector \div 4, i + 1,
                                             Append(values,
                                                    signExtend(16, ((buffer * 4096) % 65536)
                                                                   + r1.c * 16 + (r2.c \div 16))),
                                             1, r2.c)

readTag8_4S16_v2(log) ==
    LET r == readU8(log) IN readTag8_4S16_v2Loop(r.log, r.c, 0, <<>>, 0, 0)

\* the loop of readTag8_8SVB over the eight bits of the header byte
RECURSIVE readTag8_8SVBLoop(_, _, _, _)
readTag8_8SVBLoop(log, header, i, values) ==
    IF i >= 8 THEN [log |-> log, values |-> values]
    ELSE IF header % 2 = 1
    THEN LET r == readSignedVB(log) IN
         readTag8_8SVBLoop(r.log, header \div 2, i + 1, Append(values, r.v))
    ELSE readTag8_8SVBLoop(log, header \div 2, i + 1, Append(values, 0))

readTag8_8SVB(log, valueCount) ==
    IF valueCount = 1
    THEN LET r == readSignedVB(log) IN [log |-> r.log, values |-> <<r.v>>]
    ELSE LET r == readU8(log) IN readTag8_8SVBLoop(r.log, r.c, 0, <<>>)

\* ------------------------------------------------------------------------
\* Predictor engine
\* ------------------------------------------------------------------------

\* what a NULL record pointer stands for once dereferenced
NullRecord == <<>>

\* the outcome of a read outside the memory of the process: an access fault
Unmapped == -2

\* record[fieldIndex] where `record` can be the null pointer. The read
\* through the null pointer faults or yields what lies at that address,
\* whichever the process that holds the log was started with
\* (log.private.nullRead).
ReadField(log, record, fieldIndex) ==
    IF record # NullRecord THEN record[fieldIndex]
    ELSE IF log.private.nullRead = Unmapped THEN 0
    ELSE log.private.nullRead

ReadFaults(log, record) == record = NullRecord /\ log.private.nullRead = Unmapped

\* applyPrediction. `current` is the record being decoded, `previous` and
\* `previous2` are records or NullRecord. Field positions are counted from 1
\* here and from 0 in the code (hence the + 1 on the named-field indices).
\* The result is the decoded value, exit is TRUE where the code calls
\* exit(-1), and fault is TRUE where a read through a null pointer faults.
applyPrediction(log, fieldIndex, predictor, value, current, previous, previous2) ==
    CASE predictor = FLIGHT_LOG_FIELD_PREDICTOR_0 ->
            [v |-> value, exit |-> FALSE, fault |-> FALSE]
      [] predictor = FLIGHT_LOG_FIELD_PREDICTOR_MINTHROTTLE ->
            [v |-> Add32(value, log.minthrottle), exit |-> FALSE, fault |-> FALSE]
      [] predictor = FLIGHT_LOG_FIELD_PREDICTOR_1500 ->
            [v |-> Add32(value, 1500), exit |-> FALSE, fault |-> FALSE]
      [] predictor = FLIGHT_LOG_FIELD_PREDICTOR_MOTOR_0 ->
            IF log.private.motor0Index < 0
            THEN [v |-> value, exit |-> TRUE, fault |-> FALSE]
            ELSE [v |-> Add32(value, current[log.private.motor0Index + 1]),
                  exit |-> FALSE, fault |-> FALSE]
      [] predictor = FLIGHT_LOG_FIELD_PREDICTOR_VBATREF ->
            [v |-> Add32(value, log.vbatref), exit |-> FALSE, fault |-> FALSE]
      [] predictor = FLIGHT_LOG_FIELD_PREDICTOR_PREVIOUS ->
            IF previous = NullRecord
            THEN [v |-> value, exit |-> FALSE, fault |-> FALSE]
            ELSE [v |-> Add32(value, previous[fieldIndex]), exit |-> FALSE, fault |-> FALSE]
      [] predictor = FLIGHT_LOG_FIELD_PREDICTOR_STRAIGHT_LINE ->
            IF previous = NullRecord
            THEN [v |-> value, exit |-> FALSE, fault |-> FALSE]
            ELSE [v |-> Add32(value, Sub32(Add32(previous[fieldIndex], previous[fieldIndex]),
                                                 ReadField(log, previous2, fieldIndex))),
                  exit |-> FALSE, fault |-> ReadFaults(log, previous2)]
      [] predictor = FLIGHT_LOG_FIELD_PREDICTOR_AVERAGE_2 ->
            IF previous = NullRecord
            THEN [v |-> value, exit |-> FALSE, fault |-> FALSE]
            ELSE LET sum == Add32(previous[fieldIndex], ReadField(log, previous2, fieldIndex)) IN
                 IF log.mainFieldSigned[fieldIndex] # 0
                 THEN [v |-> Add32(value, SDiv2(sum)), exit |-> FALSE,
                       fault |-> ReadFaults(log, previous2)]
                 ELSE [v |-> Add32(value, Shr1(sum)), exit |-> FALSE,
                       fault |-> ReadFaults(log, previous2)]
      [] predictor = FLIGHT_LOG_FIELD_PREDICTOR_HOME_COORD ->
            IF log.private.home0Index < 0
            THEN [v |-> value, exit |-> TRUE, fault |-> FALSE]
            ELSE [v |-> Add32(value, log.private.gpsHomeHistory[2][log.private.home0Index + 1]),
                  exit |-> FALSE, fault |-> FALSE]
      [] predictor = FLIGHT_LOG_FIELD_PREDICTOR_HOME_COORD_1 ->
            IF log.private.home1Index < 1
            THEN [v |-> value, exit |-> TRUE, fault |-> FALSE]
            ELSE [v |-> Add32(value, log.private.gpsHomeHistory[2][log.private.home1Index + 1]),
                  exit |-> FALSE, fault |-> FALSE]
      [] OTHER -> [v |-> value, exit |-> TRUE, fault |-> FALSE]

\* ------------------------------------------------------------------------
\* Frame parsers
\* ------------------------------------------------------------------------

\* the encodings that fill several field positions from one group of bytes
GroupedEncodings == {FLIGHT_LOG_FIELD_ENCODING_TAG8_4S16,
                     FLIGHT_LOG_FIELD_ENCODING_TAG2_3S32,
                     FLIGHT_LOG_FIELD_ENCODING_TAG8_8SVB}

\* the look-ahead of TAG8_8SVB from position i: the first position after i,
\* within seven positions of i and within mainFieldCount, whose encoding is
\* another one; positions are counted from 1 here
RECURSIVE lookAheadTag8_8SVB(_, _, _, _)
lookAheadTag8_8SVB(log, encoding, i, j) ==
    IF j < i + 8 /\ j <= log.mainFieldCount
       /\ encoding[j] = FLIGHT_LOG_FIELD_ENCODING_TAG8_8SVB
    THEN lookAheadTag8_8SVB(log, encoding, i, j + 1)
    ELSE j

\* the number of field positions that parseFrame fills from the group that
\* starts at position i
groupCount(log, frameType, i) ==
    LET encoding == log.private.frameDefs[frameType].encoding IN
    CASE encoding[i] = FLIGHT_LOG_FIELD_ENCODING_TAG8_4S16 -> 4
      [] encoding[i] = FLIGHT_LOG_FIELD_ENCODING_TAG2_3S32 -> 3
      [] OTHER -> lookAheadTag8_8SVB(log, encoding, i, i + 1) - i

\* the bytes of the group that starts at position i, decoded
readGroup(log, frameType, i) ==
    LET encoding == log.private.frameDefs[frameType].encoding IN
    CASE encoding[i] = FLIGHT_LOG_FIELD_ENCODING_TAG8_4S16 ->
            IF log.private.dataVersion < 2 THEN readTag8_4S16_v1(log) ELSE readTag8_4S16_v2(log)
      [] encoding[i] = FLIGHT_LOG_FIELD_ENCODING_TAG2_3S32 -> readTag2_3S32(log)
      [] OTHER -> readTag8_8SVB(log, groupCount(log, frameType, i))

\* The loop of parseFrame from field position i on. `frame` is the buffer
\* decoded into (its earlier contents stay where no field is written).
\* The encodings SIGNED_VB, UNSIGNED_VB, NULL and the three grouped ones are
\* decoded; every other tag takes the default branch here.
RECURSIVE parseFrameLoop(_, _, _, _, _, _, _, _, _)

\* `for (j = 0; j < n; j++, i++) frame[i] = applyPrediction(...); continue;`
\* the values of the decoded group (its bytes read: group.log), from the j-th
\* on, go to the positions from i on, and the loop of parseFrame goes on
\* behind them. A position beyond FLIGHT_LOG_MAX_FIELDS lies outside
\* frame[], predictor[] and encoding[]: what the access does is undefined,
\* and the machine is followed no further (faulted).
RECURSIVE applyGroup(_, _, _, _, _, _, _, _, _, _, _)
applyGroup(group, frameType, frame, previous, previous2, fieldCount, skippedFrames, raw, i, j, n) ==
    IF j > n
    THEN parseFrameLoop(group.log, frameType, frame, previous, previous2, fieldCount,
                        skippedFrames, raw, i)
    ELSE IF i > FLIGHT_LOG_MAX_FIELDS
    THEN [log |-> [group.log EXCEPT !.faulted = TRUE], frame |-> frame, exit |-> TRUE]
    ELSE LET p == applyPrediction(group.log, i,
                                  IF raw THEN FLIGHT_LOG_FIELD_PREDICTOR_0
                                         ELSE group.log.private.frameDefs[frameType].predictor[i],
                                  group.values[j], frame, previous, previous2)
         IN IF p.fault
            THEN [log |-> [group.log EXCEPT !.faulted = TRUE], frame |-> frame, exit |-> TRUE]
            ELSE IF p.exit
            THEN [log |-> group.log, frame |-> frame, exit |-> TRUE]
            ELSE applyGroup(group, frameType, [frame EXCEPT ![i] = p.v], previous, previous2,
                            fieldCount, skippedFrames, raw, i + 1, j + 1, n)

parseFrameLoop(log, frameType, frame, previous, previous2, fieldCount, skippedFrames, raw, i) ==
    IF i > fieldCount
    THEN [log |-> log, frame |-> frame, exit |-> FALSE]
    ELSE LET predictor == log.private.frameDefs[frameType].predictor
             encoding == log.private.frameDefs[frameType].encoding
         IN
         IF predictor[i] = FLIGHT_LOG_FIELD_PREDICTOR_INC
         THEN LET v == IF previous # NullRecord
                       THEN Add32(skippedFrames + 1, previous[i])
                       ELSE skippedFrames + 1
              IN parseFrameLoop(log, frameType, [frame EXCEPT ![i] = v], previous,
                                previous2, fieldCount, skippedFrames, raw, i + 1)
         ELSE IF encoding[i] \in GroupedEncodings
         THEN applyGroup(readGroup(log, frameType, i), frameType, frame, previous, previous2,
                         fieldCount, skippedFrames, raw, i, 1, groupCount(log, frameType, i))
         ELSE LET known == encoding[i] \in {FLIGHT_LOG_FIELD_ENCODING_SIGNED_VB,
                                            FLIGHT_LOG_FIELD_ENCODING_UNSIGNED_VB,
                                            FLIGHT_LOG_FIELD_ENCODING_NULL}
                  r == CASE encoding[i] = FLIGHT_LOG_FIELD_ENCODING_SIGNED_VB ->
                                readSignedVB(log)
                         [] encoding[i] = FLIGHT_LOG_FIELD_ENCODING_UNSIGNED_VB ->
                                readUnsignedVB(log)
                         [] OTHER -> [log |-> log, v |-> 0]
                  p == applyPrediction(r.log, i,
                                       IF raw THEN FLIGHT_LOG_FIELD_PREDICTOR_0
                                              ELSE predictor[i],
                                       r.v, frame, previous, previous2)
              IN
              IF p.fault
              THEN [log |-> [r.log EXCEPT !.faulted = TRUE], frame |-> frame, exit |-> TRUE]
              ELSE IF ~known \/ p.exit
              THEN [log |-> r.log, frame |-> frame, exit |-> TRUE]
              ELSE parseFrameLoop(r.log, frameType, [frame EXCEPT ![i] = p.v], previous,
                                  previous2, fieldCount, skippedFrames, raw, i + 1)

\* a variant of parseFrame that applies the predictors in raw mode too
parseFrame_IgnoresRaw(log, frameType, frame, previous, previous2, fieldCount, skippedFrames, raw) ==
    parseFrameLoop(log, frameType, frame, previous, previous2, fieldCount, skippedFrames, FALSE, 1)

parseFrame(log, frameType, frame, previous, previous2, fieldCount, skippedFrames, raw) ==
    parseFrameLoop(log, frameType, frame, previous, previous2, fieldCount, skippedFrames, raw, 1)

\* the record a main history pointer refers to
Deref(log, ptr) ==
    IF ptr = NULL THEN NullRecord ELSE log.private.blackboxHistoryRing[ptr]

\* the state after a parse routine: the decoded record stored through the
\* pointer mainHistory[0], exited set where parseFrame called exit(-1)
StoreMain(r) ==
    [r.log EXCEPT !.private.blackboxHistoryRing[r.log.private.mainHistory[1]] = r.frame,
                  !.exited = r.exit]

\* parseIntraframe. mainHistory is indexed from 1 here: mainHistory[1] is the
\* code's mainHistory[0], the slot decoded into.
parseIntraframe(log, raw) ==
    LET current == log.private.mainHistory[1]
        previous == Deref(log, log.private.mainHistory[2])
        skippedFrames ==
            IF previous # NullRecord
            THEN countSkippedFrames(log, Add32(previous[FLIGHT_LOG_FIELD_INDEX_ITERATION], 1), 0)
            ELSE 0
        log1 == IF previous # NullRecord
                THEN [log EXCEPT !.stats.intentionallyAbsentIterations = @ + skippedFrames]
                ELSE log
    IN StoreMain(parseFrame(log1, MarkerI, Deref(log, current), previous, NullRecord,
                            log.mainFieldCount, skippedFrames, raw))

\* a variant of parseInterframe that counts the iterations left out from the
\* previous record's own iteration on
parseInterframe_CountsFromPrevious(log, raw) ==
    LET current == log.private.mainHistory[1]
        previous == Deref(log, log.private.mainHistory[2])
        previous2 == Deref(log, log.private.mainHistory[3])
        skippedFrames ==
            IF previous # NullRecord
            THEN countSkippedFrames(log, previous[FLIGHT_LOG_FIELD_INDEX_ITERATION], 0)
            ELSE 0
        log1 == [log EXCEPT !.stats.intentionallyAbsentIterations = @ + skippedFrames]
    IN StoreMain(parseFrame(log1, MarkerP, Deref(log, current), previous, previous2,
                            log.mainFieldCount, skippedFrames, raw))

parseInterframe(log, raw) ==
    LET current == log.private.mainHistory[1]
        previous == Deref(log, log.private.mainHistory[2])
        previous2 == Deref(log, log.private.mainHistory[3])
        skippedFrames ==
            IF previous # NullRecord
            THEN countSkippedFrames(log, Add32(previous[FLIGHT_LOG_FIELD_INDEX_ITERATION], 1), 0)
            ELSE 0
        log1 == [log EXCEPT !.stats.intentionallyAbsentIterations = @ + skippedFrames]
    IN StoreMain(parseFrame(log1, MarkerP, Deref(log, current), previous, previous2,
                            log.mainFieldCount, skippedFrames, raw))

parseGPSFrame(log, raw) ==
    LET r == parseFrame(log, MarkerG, log.private.lastGPS, NullRecord, NullRecord,
                        log.gpsFieldCount, 0, raw)
    IN [r.log EXCEPT !.private.lastGPS = r.frame, !.exited = r.exit]

\* a variant of parseGPSHomeFrame that decodes into the published record
parseGPSHomeFrame_IntoPublished(log, raw) ==
    LET r == parseFrame(log, MarkerH, log.private.gpsHomeHistory[2], NullRecord, NullRecord,
                        log.gpsHomeFieldCount, 0, raw)
    IN [r.log EXCEPT !.private.gpsHomeHistory[2] = r.frame, !.exited = r.exit]

parseGPSHomeFrame(log, raw) ==
    LET r == parseFrame(log, MarkerH, log.private.gpsHomeHistory[1], NullRecord, NullRecord,
                        log.gpsHomeFieldCount, 0, raw)
    IN [r.log EXCEPT !.private.gpsHomeHistory[1] = r.frame, !.exited = r.exit]

\* n successive readChar calls, each result stored in a uint8_t
RECURSIVE readBytes(_, _, _)
readBytes(log, n, acc) ==
    IF n = 0 THEN [log |-> log, bytes |-> acc]
    ELSE LET r == readChar(log) IN readBytes(r.log, n - 1, Append(acc, U8(r.c)))

\* parseEventFrame. lastEvent.data holds the members of the union that the
\* event kind writes, in the order they are read.
parseEventFrame(log, raw) ==
    LET r == readChar(log)
        eventType == U8(r.c)
    IN
    CASE eventType = FLIGHT_LOG_EVENT_SYNC_BEEP ->
            LET t == readUnsignedVB(r.log) IN
            [t.log EXCEPT !.private.lastEvent = [event |-> eventType, data |-> <<t.v>>]]
      [] eventType = FLIGHT_LOG_EVENT_AUTOTUNE_CYCLE_START ->
            LET b == readBytes(r.log, 5, <<>>) IN
            [b.log EXCEPT !.private.lastEvent = [event |-> eventType, data |-> b.bytes]]
      [] eventType = FLIGHT_LOG_EVENT_AUTOTUNE_CYCLE_RESULT ->
            LET b == readBytes(r.log, 4, <<>>) IN
            [b.log EXCEPT !.private.lastEvent = [event |-> eventType, data |-> b.bytes]]
      [] OTHER ->
            [r.log EXCEPT !.private.lastEvent.event = -1]

\* ------------------------------------------------------------------------
\* Statistics
\* ------------------------------------------------------------------------

\* a field as the statistics see it: (uint32_t) fields[i] for an unsigned
\* field, the int32_t itself for a signed one
StatValue(log, fields, i) ==
    IF log.mainFieldSigned[i] # 0 THEN FromS32(fields[i]) ELSE FromU32(fields[i])

Max2(a, b) == IF Lt64(b, a) THEN a ELSE b
Min2(a, b) == IF Lt64(a, b) THEN a ELSE b

\* a variant of updateFieldStatistics that records the first frame only
updateFieldStatistics_FirstOnly(log, fields) ==
    IF log.stats.frame[MarkerI].validCount + log.stats.frame[MarkerP].validCount <= 1
    THEN [log EXCEPT !.stats.field =
            [i \in DOMAIN @ |->
                IF i <= log.mainFieldCount
                THEN [max |-> StatValue(log, fields, i), min |-> StatValue(log, fields, i)]
                ELSE @[i]]]
    ELSE log

\* updateFieldStatistics
updateFieldStatistics(log, fields) ==
    IF log.stats.frame[MarkerI].validCount + log.stats.frame[MarkerP].validCount <= 1
    THEN [log EXCEPT !.stats.field =
            [i \in DOMAIN @ |->
                IF i <= log.mainFieldCount
                THEN [max |-> StatValue(log, fields, i), min |-> StatValue(log, fields, i)]
                ELSE @[i]]]
    ELSE [log EXCEPT !.stats.field =
            [i \in DOMAIN @ |->
                IF i <= log.mainFieldCount
                THEN [max |-> Max2(StatValue(log, fields, i), @[i].max),
                      min |-> Min2(StatValue(log, fields, i), @[i].min)]
                ELSE @[i]]]

\* ------------------------------------------------------------------------
\* Completion of a well-formed frame
\* ------------------------------------------------------------------------

flightLoginvalidateStream(log) ==
    [log EXCEPT !.private.mainStreamIsValid = FALSE,
                !.private.mainHistory[2] = NULL,
                !.private.mainHistory[3] = NULL]

\* one invocation of the onFrameReady callback, as the caller sees it
FrameReadyCall(valid, frame, frameType, fieldCount, frameOffset, frameSize) ==
    [cb |-> "onFrameReady", valid |-> valid, frame |-> frame, frameType |-> frameType,
     fieldCount |-> fieldCount, frameOffset |-> frameOffset, frameSize |-> frameSize]

\* the first fieldCount fields of a record
Fields(record, fieldCount) == SubSeq(record, 1, fieldCount)

\* mainHistory[0] += FLIGHT_LOG_MAX_FIELDS, wrapping at the end of the ring
NextSlot(slot) == IF slot + 1 > 3 THEN 1 ELSE slot + 1

\* a variant of completeIntraframe that does not compare the time
completeIntraframe_IterationOnly(log, calls, frameType, frameStart, frameEnd, raw) ==
    LET cur == log.private.blackboxHistoryRing[log.private.mainHistory[1]]
        accept == raw
                  \/ ~Lt64(FromU32(cur[FLIGHT_LOG_FIELD_INDEX_ITERATION]),
                           log.stats.field[FLIGHT_LOG_FIELD_INDEX_ITERATION].max)
        log1 == IF accept
                THEN updateFieldStatistics([log EXCEPT !.private.mainStreamIsValid = TRUE], cur)
                ELSE flightLoginvalidateStream(log)
        calls1 == Append(calls,
                         FrameReadyCall(log1.private.mainStreamIsValid,
                                        Fields(cur, log.mainFieldCount), frameType,
                                        log.mainFieldCount,
                                        frameStart - log.private.logData,
                                        frameEnd - frameStart))
        log2 == IF log1.private.mainStreamIsValid
                THEN [log1 EXCEPT !.private.mainHistory =
                        <<NextSlot(@[1]), @[1], @[1]>>]
                ELSE log1
    IN [log |-> log2, calls |-> calls1]

\* a variant of completeIntraframe that does not move mainHistory[0] on
completeIntraframe_NoAdvance(log, calls, frameType, frameStart, frameEnd, raw) ==
    LET cur == log.private.blackboxHistoryRing[log.private.mainHistory[1]]
        accept == raw
                  \/ (~Lt64(FromU32(cur[FLIGHT_LOG_FIELD_INDEX_ITERATION]),
                            log.stats.field[FLIGHT_LOG_FIELD_INDEX_ITERATION].max)
                      /\ ~Lt64(FromU32(cur[FLIGHT_LOG_FIELD_INDEX_TIME]),
                              log.stats.field[FLIGHT_LOG_FIELD_INDEX_TIME].max))
        log1 == IF accept
                THEN updateFieldStatistics([log EXCEPT !.private.mainStreamIsValid = TRUE], cur)
                ELSE flightLoginvalidateStream(log)
        calls1 == Append(calls,
                         FrameReadyCall(log1.private.mainStreamIsValid,
                                        Fields(cur, log.mainFieldCount), frameType,
                                        log.mainFieldCount,
                                        frameStart - log.private.logData,
                                        frameEnd - frameStart))
        log2 == IF log1.private.mainStreamIsValid
                THEN [log1 EXCEPT !.private.mainHistory = <<@[1], @[1], @[1]>>]
                ELSE log1
    IN [log |-> log2, calls |-> calls1]

\* The completion steps take the log and the callbacks issued so far and
\* give both back.
completeIntraframe(log, calls, frameType, frameStart, frameEnd, raw) ==
    LET cur == log.private.blackboxHistoryRing[log.private.mainHistory[1]]
        accept == raw
                  \/ (~Lt64(FromU32(cur[FLIGHT_LOG_FIELD_INDEX_ITERATION]),
                            log.stats.field[FLIGHT_LOG_FIELD_INDEX_ITERATION].max)
                      /\ ~Lt64(FromU32(cur[FLIGHT_LOG_FIELD_INDEX_TIME]),
                              log.stats.field[FLIGHT_LOG_FIELD_INDEX_TIME].max))
        log1 == IF accept
                THEN updateFieldStatistics([log EXCEPT !.private.mainStreamIsValid = TRUE], cur)
                ELSE flightLoginvalidateStream(log)
        calls1 == Append(calls,
                         FrameReadyCall(log1.private.mainStreamIsValid,
                                        Fields(cur, log.mainFieldCount), frameType,
                                        log.mainFieldCount,
                                        frameStart - log.private.logData,
                                        frameEnd - frameStart))
        log2 == IF log1.private.mainStreamIsValid
                THEN [log1 EXCEPT !.private.mainHistory =
                        <<NextSlot(@[1]), @[1], @[1]>>]
                ELSE log1
    IN [log |-> log2, calls |-> calls1]

\* a variant of completeInterframe whose rotation leaves previous-previous
\* where it was
completeInterframe_KeepsOlder(log, calls, frameType, frameStart, frameEnd, raw) ==
    LET cur == log.private.blackboxHistoryRing[log.private.mainHistory[1]]
        log1 == IF log.private.mainStreamIsValid
                THEN updateFieldStatistics(log, cur)
                ELSE [log EXCEPT !.stats.frame[MarkerP].desyncCount = @ + 1]
        calls1 == Append(calls,
                         FrameReadyCall(log1.private.mainStreamIsValid,
                                        Fields(cur, log.mainFieldCount), frameType,
                                        log.mainFieldCount,
                                        frameStart - log.private.logData,
                                        frameEnd - frameStart))
        log2 == IF log1.private.mainStreamIsValid
                THEN [log1 EXCEPT !.private.mainHistory =
                        <<NextSlot(@[1]), @[1], @[3]>>]
                ELSE log1
    IN [log |-> log2, calls |-> calls1]

\* a variant of completeInterframe in which a P frame resynchronises the stream
completeInterframe_Resync(log, calls, frameType, frameStart, frameEnd, raw) ==
    LET cur == log.private.blackboxHistoryRing[log.private.mainHistory[1]]
        log1 == updateFieldStatistics([log EXCEPT !.private.mainStreamIsValid = TRUE], cur)
        calls1 == Append(calls,
                         FrameReadyCall(log1.private.mainStreamIsValid,
                                        Fields(cur, log.mainFieldCount), frameType,
                                        log.mainFieldCount,
                                        frameStart - log.private.logData,
                                        frameEnd - frameStart))
        log2 == IF log1.private.mainStreamIsValid
                THEN [log1 EXCEPT !.private.mainHistory =
                        <<NextSlot(@[1]), @[1], @[2]>>]
                ELSE log1
    IN [log |-> log2, calls |-> calls1]

completeInterframe(log, calls, frameType, frameStart, frameEnd, raw) ==
    LET cur == log.private.blackboxHistoryRing[log.private.mainHistory[1]]
        log1 == IF log.private.mainStreamIsValid
                THEN updateFieldStatistics(log, cur)
                ELSE [log EXCEPT !.stats.frame[MarkerP].desyncCount = @ + 1]
        calls1 == Append(calls,
                         FrameReadyCall(log1.private.mainStreamIsValid,
                                        Fields(cur, log.mainFieldCount), frameType,
                                        log.mainFieldCount,
                                        frameStart - log.private.logData,
                                        frameEnd - frameStart))
        log2 == IF log1.private.mainStreamIsValid
                THEN [log1 EXCEPT !.private.mainHistory =
                        <<NextSlot(@[1]), @[1], @[2]>>]
                ELSE log1
    IN [log |-> log2, calls |-> calls1]

completeEventFrame(log, calls, frameType, frameStart, frameEnd, raw) ==
    [log |-> log,
     calls |-> Append(calls, [cb |-> "onEvent", event |-> log.private.lastEvent])]

completeGPSHomeFrame(log, calls, frameType, frameStart, frameEnd, raw) ==
    LET log1 == [log EXCEPT !.private.gpsHomeHistory[2] = log.private.gpsHomeHistory[1],
                            !.private.gpsHomeIsValid = TRUE]
    IN [log |-> log1,
        calls |-> Append(calls,
                         FrameReadyCall(TRUE,
                                        Fields(log1.private.gpsHomeHistory[2],
                                               log.gpsHomeFieldCount),
                                        frameType, log.gpsHomeFieldCount,
                                        frameStart - log.private.logData,
                                        frameEnd - frameStart))]

\* a variant of completeGPSFrame that delivers every G frame as valid
completeGPSFrame_AlwaysValid(log, calls, frameType, frameStart, frameEnd, raw) ==
    [log |-> log,
     calls |-> Append(calls,
                      FrameReadyCall(TRUE,
                                     Fields(log.private.lastGPS, log.gpsFieldCount),
                                     frameType, log.gpsFieldCount,
                                     frameStart - log.private.logData,
                                     frameEnd - frameStart))]

completeGPSFrame(log, calls, frameType, frameStart, frameEnd, raw) ==
    [log |-> log,
     calls |-> Append(calls,
                      FrameReadyCall(log.private.gpsHomeIsValid,
                                     Fields(log.private.lastGPS, log.gpsFieldCount),
                                     frameType, log.gpsFieldCount,
                                     frameStart - log.private.logData,
                                     frameEnd - frameStart))]

\* frameTypes[].parse and frameTypes[].complete: dispatch on the marker
FrameTypeParse(frameType, log, raw) ==
    CASE frameType = MarkerI -> parseIntraframe(log, raw)
      [] frameType = MarkerP -> parseInterframe(log, raw)
      [] frameType = MarkerG -> parseGPSFrame(log, raw)
      [] frameType = MarkerH -> parseGPSHomeFrame(log, raw)
      [] frameType = MarkerE -> parseEventFrame(log, raw)

FrameTypeComplete(frameType, log, calls, frameStart, frameEnd, raw) ==
    CASE frameType = MarkerI -> completeIntraframe(log, calls, frameType, frameStart, frameEnd, raw)
      [] frameType = MarkerP -> completeInterframe(log, calls, frameType, frameStart, frameEnd, raw)
      [] frameType = MarkerG -> completeGPSFrame(log, calls, frameType, frameStart, frameEnd, raw)
      [] frameType = MarkerH -> completeGPSHomeFrame(log, calls, frameType, frameStart, frameEnd, raw)
      [] frameType = MarkerE -> completeEventFrame(log, calls, frameType, frameStart, frameEnd, raw)

\* ------------------------------------------------------------------------
\* flightLogParse
\* ------------------------------------------------------------------------

\* A machine state m gathers the arguments and local variables of one
\* flightLogParse invocation with the log object and the callbacks issued:
\*   raw, log, calls, parserState, lastFrameType, frameStart, prematureEof,
\*   command, pc.
\* pc is "loop" at the top of the while loop, "begin" at the `command == EOF`
\* test that follows the treatment of the previous frame, "done" after
\* `return true`, "failed" after `return false`, "exit" after exit(-1).

\* a header array as parseCommaSeparatedIntegers leaves it: the listed
\* integers, then the zeroes of flightLogCreate
Pad(seq) == [k \in 1..FLIGHT_LOG_MAX_FIELDS |-> IF k <= Len(seq) THEN seq[k] ELSE 0]

\* The frame definitions that the header lines of the modelled sessions set.
\* All sessions have
\*   Field I name:loopIteration,time      Field I signed:0,0
\*   Field I predictor:0,0                Field I encoding:1,1
\* and either, as the firmware writes them ("inc"),
\*   Field P predictor:6,2                Field P encoding:9,0
\* or, with both fields of a P frame encoded ("encoded"),
\*   Field P predictor:1,2                Field P encoding:0,0
HeaderFrameDefs(variant) ==
    [m \in Markers |->
        CASE m = MarkerI -> [predictor |-> Pad(<<FLIGHT_LOG_FIELD_PREDICTOR_0,
                                                 FLIGHT_LOG_FIELD_PREDICTOR_0>>),
                             encoding |-> Pad(<<FLIGHT_LOG_FIELD_ENCODING_UNSIGNED_VB,
                                                FLIGHT_LOG_FIELD_ENCODING_UNSIGNED_VB>>)]
          [] m = MarkerP /\ variant = "inc" ->
                            [predictor |-> Pad(<<FLIGHT_LOG_FIELD_PREDICTOR_INC,
                                                 FLIGHT_LOG_FIELD_PREDICTOR_STRAIGHT_LINE>>),
                             encoding |-> Pad(<<FLIGHT_LOG_FIELD_ENCODING_NULL,
                                                FLIGHT_LOG_FIELD_ENCODING_SIGNED_VB>>)]
          [] m = MarkerP /\ variant = "encoded" ->
                            [predictor |-> Pad(<<FLIGHT_LOG_FIELD_PREDICTOR_PREVIOUS,
                                                 FLIGHT_LOG_FIELD_PREDICTOR_STRAIGHT_LINE>>),
                             encoding |-> Pad(<<FLIGHT_LOG_FIELD_ENCODING_SIGNED_VB,
                                                FLIGHT_LOG_FIELD_ENCODING_SIGNED_VB>>)]
          [] OTHER -> [predictor |-> Pad(<<>>), encoding |-> Pad(<<>>)]]

ZeroRecord == Pad(<<>>)

ZeroFrameStats ==
    [bytes |-> 0, validCount |-> 0, corruptCount |-> 0, desyncCount |-> 0,
     sizeCount |-> [n \in 0..FLIGHT_LOG_MAX_FRAME_LENGTH |-> 0]]

\* The log object when the main loop of flightLogParse is first entered
\* with the cursor behind the header lines of the session: the object as
\* flightLogCreate zeroes it, the resets and defaults of flightLogParse, and
\* the frame definitions above. `bytes` is the rest of the session.
LogAfterHeader(bytes, variant) ==
    [stats |-> [frame |-> [m \in Markers |-> ZeroFrameStats],
                field |-> [i \in 1..FLIGHT_LOG_MAX_FIELDS |-> [min |-> FromS32(0), max |-> FromS32(0)]],
                totalCorruptFrames |-> 0,
                intentionallyAbsentIterations |-> 0,
                totalBytes |-> 0],
     mainFieldCount |-> 2,
     gpsFieldCount |-> 0,
     gpsHomeFieldCount |-> 0,
     mainFieldSigned |-> Pad(<<0, 0>>),
     minthrottle |-> 1150,
     maxthrottle |-> 1850,
     vbatref |-> 4095,
     vbatscale |-> 110,
     vbatmincellvoltage |-> 33,
     vbatmaxcellvoltage |-> 43,
     vbatwarningcellvoltage |-> 35,
     frameIntervalI |-> 32,
     frameIntervalPNum |-> 1,
     frameIntervalPDenom |-> 1,
     exited |-> FALSE,
     faulted |-> FALSE,
     private |->
        [data |-> bytes,
         nullRead |-> Unmapped,
         logData |-> 0,
         logStart |-> 0,
         logPos |-> 0,
         logEnd |-> Len(bytes),
         eof |-> FALSE,
         frameDefs |-> HeaderFrameDefs(variant),
         dataVersion |-> 0,
         motor0Index |-> -1,
         home0Index |-> -1,
         home1Index |-> -1,
         blackboxHistoryRing |-> <<ZeroRecord, ZeroRecord, ZeroRecord>>,
         mainHistory |-> <<1, NULL, NULL>>,
         mainStreamIsValid |-> FALSE,
         gpsHomeHistory |-> <<ZeroRecord, ZeroRecord>>,
         gpsHomeIsValid |-> FALSE,
         lastEvent |-> [event |-> -1, data |-> <<>>],
         lastGPS |-> ZeroRecord]]

MachineAfterHeader(bytes, variant, rawFlag) ==
    [raw |-> rawFlag,
     log |-> LogAfterHeader(bytes, variant),
     calls |-> <<>>,
     parserState |-> PARSER_STATE_HEADER,
     lastFrameType |-> NULL,
     frameStart |-> 0,
     prematureEof |-> FALSE,
     command |-> 0,
     pc |-> "loop"]

\* `int command = readChar(log)` at the top of the loop
ReadCommand(m) ==
    LET r == readChar(m.log) IN [m EXCEPT !.log = r.log, !.command = r.c]

\* PARSER_STATE_HEADER, `case EOF`
HeaderEofStep(m) == [ReadCommand(m) EXCEPT !.pc = "failed"]

\* PARSER_STATE_HEADER, default branch with no frame type: the byte is skipped
HeaderSkipStep(m) == ReadCommand(m)

\* the rewrite of the second of two adjacent HOME_COORD predictors
RECURSIVE FixHomeCoordPredictors(_, _, _)
FixHomeCoordPredictors(predictor, i, gpsFieldCount) ==
    IF i > gpsFieldCount
    THEN predictor
    ELSE FixHomeCoordPredictors(
            IF predictor[i - 1] = FLIGHT_LOG_FIELD_PREDICTOR_HOME_COORD
               /\ predictor[i] = FLIGHT_LOG_FIELD_PREDICTOR_HOME_COORD
            THEN [predictor EXCEPT ![i] = FLIGHT_LOG_FIELD_PREDICTOR_HOME_COORD_1]
            ELSE predictor,
            i + 1, gpsFieldCount)

\* PARSER_STATE_HEADER, default branch with a frame type: the marker is
\* unread, the header is finalised and the data phase begins
HeaderFinalizeStep(m) ==
    LET m1 == ReadCommand(m)
        log1 == unreadChar(m1.log)
    IN
    IF log1.mainFieldCount = 0
    THEN [m1 EXCEPT !.log = log1, !.pc = "failed"]
    ELSE [m1 EXCEPT
            !.log = [log1 EXCEPT !.private.frameDefs[MarkerG].predictor =
                        FixHomeCoordPredictors(@, 2, log1.gpsFieldCount)],
            !.parserState = PARSER_STATE_DATA,
            !.lastFrameType = NULL,
            !.frameStart = log1.private.logPos,
            !.calls = Append(@, [cb |-> "onMetadataReady"])]

\* PARSER_STATE_DATA with a previous frame: lastFrameSize and
\* looksLikeFrameCompleted as the code computes them once the command is read
LastFrameSize(m1) == m1.log.private.logPos - m1.frameStart

\* a variant of LooksLikeFrameCompleted that takes every end of the data as clean
LooksLikeFrameCompleted_AnyEof(m1) ==
    (m1.command # EOF /\ getFrameType(U8(m1.command)) # NULL)
    \/ m1.command = EOF

LooksLikeFrameCompleted(m1) ==
    (m1.command # EOF /\ getFrameType(U8(m1.command)) # NULL)
    \/ (~m1.prematureEof /\ m1.command = EOF)

\* a variant of WellFormed that rejects a frame of exactly the largest length
WellFormed_Strict(m1) ==
    LastFrameSize(m1) < FLIGHT_LOG_MAX_FRAME_LENGTH /\ LooksLikeFrameCompleted(m1)

WellFormed(m1) ==
    LastFrameSize(m1) <= FLIGHT_LOG_MAX_FRAME_LENGTH /\ LooksLikeFrameCompleted(m1)

\* the previous frame is taken as valid: statistics, then its completion step
DataFrameCompletedStep(m) ==
    LET m1 == ReadCommand(m)
        size == LastFrameSize(m1)
        log1 == [m1.log EXCEPT
                    !.stats.frame[m1.lastFrameType].bytes = @ + size,
                    !.stats.frame[m1.lastFrameType].sizeCount[size] = @ + 1,
                    !.stats.frame[m1.lastFrameType].validCount = @ + 1]
        c == FrameTypeComplete(m1.lastFrameType, log1, m1.calls, m1.frameStart,
                               log1.private.logPos, m1.raw)
    IN [m1 EXCEPT !.log = c.log, !.calls = c.calls, !.pc = "begin"]

\* a variant of DataFrameCorruptStep that goes on after the corrupt frame
DataFrameCorruptStep_NoRewind(m) ==
    LET m1 == ReadCommand(m)
        size == LastFrameSize(m1)
    IN [m1 EXCEPT
          !.log = [m1.log EXCEPT
                      !.private.mainStreamIsValid = FALSE,
                      !.stats.frame[m1.lastFrameType].corruptCount = @ + 1,
                      !.stats.totalCorruptFrames = @ + 1,
                      !.private.eof = FALSE],
          !.calls = Append(@, FrameReadyCall(FALSE, NullRecord, m1.lastFrameType, 0,
                                             m1.frameStart - m1.log.private.logData,
                                             size)),
          !.lastFrameType = NULL,
          !.prematureEof = FALSE,
          !.pc = "loop"]

\* a variant of DataFrameCorruptStep that rewinds to the marker of the
\* corrupt frame
DataFrameCorruptStep_RewindsToMarker(m) ==
    LET m1 == ReadCommand(m)
        size == LastFrameSize(m1)
    IN [m1 EXCEPT
          !.log = [m1.log EXCEPT
                      !.private.mainStreamIsValid = FALSE,
                      !.stats.frame[m1.lastFrameType].corruptCount = @ + 1,
                      !.stats.totalCorruptFrames = @ + 1,
                      !.private.logPos = m1.frameStart - 1,
                      !.private.eof = FALSE],
          !.calls = Append(@, FrameReadyCall(FALSE, NullRecord, m1.lastFrameType, 0,
                                             m1.frameStart - m1.log.private.logData,
                                             size)),
          !.lastFrameType = NULL,
          !.prematureEof = FALSE,
          !.pc = "loop"]

\* the previous frame was corrupt: counters, notification, rewind, `continue`
DataFrameCorruptStep(m) ==
    LET m1 == ReadCommand(m)
        size == LastFrameSize(m1)
    IN [m1 EXCEPT
          !.log = [m1.log EXCEPT
                      !.private.mainStreamIsValid = FALSE,
                      !.stats.frame[m1.lastFrameType].corruptCount = @ + 1,
                      !.stats.totalCorruptFrames = @ + 1,
                      !.private.logPos = m1.frameStart,
                      !.private.eof = FALSE],
          !.calls = Append(@, FrameReadyCall(FALSE, NullRecord, m1.lastFrameType, 0,
                                             m1.frameStart - m1.log.private.logData,
                                             size)),
          !.lastFrameType = NULL,
          !.prematureEof = FALSE,
          !.pc = "loop"]

\* PARSER_STATE_DATA with no previous frame
DataNoFrameStep(m) == [ReadCommand(m) EXCEPT !.pc = "begin"]

\* `if (command == EOF) goto done`
DataEofStep(m) ==
    [m EXCEPT !.log.stats.totalBytes = m.log.private.logEnd - m.log.private.logStart,
              !.pc = "done"]

\* the byte read is a frame marker: the frame is parsed
DataParseFrameStep(m) ==
    LET frameType == getFrameType(U8(m.command))
        log1 == FrameTypeParse(frameType, m.log, m.raw)
    IN [m EXCEPT !.log = log1,
                 !.frameStart = m.log.private.logPos,
                 !.prematureEof = IF log1.private.eof THEN TRUE ELSE @,
                 !.lastFrameType = frameType,
                 !.pc = IF log1.faulted THEN "fault"
                        ELSE IF log1.exited THEN "exit" ELSE "loop"]

\* a variant of DataUnknownByteStep that also passes over the byte after it
DataUnknownByteStep_SkipsNext(m) ==
    [m EXCEPT !.log.private.mainStreamIsValid = FALSE,
              !.log.private.logPos = IF @ < m.log.private.logEnd THEN @ + 1 ELSE @,
              !.frameStart = m.log.private.logPos,
              !.prematureEof = IF m.log.private.eof THEN TRUE ELSE @,
              !.lastFrameType = NULL,
              !.pc = "loop"]

\* the byte read is no frame marker
DataUnknownByteStep(m) ==
    [m EXCEPT !.log.private.mainStreamIsValid = FALSE,
              !.frameStart = m.log.private.logPos,
              !.prematureEof = IF m.log.private.eof THEN TRUE ELSE @,
              !.lastFrameType = NULL,
              !.pc = "loop"]

\* the byte that the next readChar returns
Peek(m) ==
    IF m.log.private.logPos < m.log.private.logEnd
    THEN m.log.private.data[m.log.private.logPos + 1]
    ELSE EOF

\* The conditions under which the loop takes each of the steps above
AtHeaderEof(m) ==
    m.pc = "loop" /\ m.parserState = PARSER_STATE_HEADER /\ Peek(m) = EOF

AtHeaderSkip(m) ==
    /\ m.pc = "loop" /\ m.parserState = PARSER_STATE_HEADER
    /\ Peek(m) # EOF /\ Peek(m) # MarkerH /\ getFrameType(Peek(m)) = NULL

AtHeaderFinalize(m) ==
    /\ m.pc = "loop" /\ m.parserState = PARSER_STATE_HEADER
    /\ Peek(m) # EOF /\ Peek(m) # MarkerH /\ getFrameType(Peek(m)) # NULL

AtDataFrameCompleted(m) ==
    /\ m.pc = "loop" /\ m.parserState = PARSER_STATE_DATA
    /\ m.lastFrameType # NULL
    /\ WellFormed(ReadCommand(m))

AtDataFrameCorrupt(m) ==
    /\ m.pc = "loop" /\ m.parserState = PARSER_STATE_DATA
    /\ m.lastFrameType # NULL
    /\ ~WellFormed(ReadCommand(m))

AtDataNoFrame(m) ==
    m.pc = "loop" /\ m.parserState = PARSER_STATE_DATA /\ m.lastFrameType = NULL

AtDataEof(m) == m.pc = "begin" /\ m.command = EOF

AtDataParseFrame(m) ==
    m.pc = "begin" /\ m.command # EOF /\ getFrameType(U8(m.command)) # NULL

AtDataUnknownByte(m) ==
    m.pc = "begin" /\ m.command # EOF /\ getFrameType(U8(m.command)) = NULL

Returned(m) == m.pc \in {"done", "failed", "exit", "fault"}

\* one step of the loop of flightLogParse
flightLogParseStep(m) ==
    CASE AtHeaderEof(m) -> HeaderEofStep(m)
      [] AtHeaderSkip(m) -> HeaderSkipStep(m)
      [] AtHeaderFinalize(m) -> HeaderFinalizeStep(m)
      [] AtDataFrameCompleted(m) -> DataFrameCompletedStep(m)
      [] AtDataFrameCorrupt(m) -> DataFrameCorruptStep(m)
      [] AtDataNoFrame(m) -> DataNoFrameStep(m)
      [] AtDataEof(m) -> DataEofStep(m)
      [] AtDataParseFrame(m) -> DataParseFrameStep(m)
      [] AtDataUnknownByte(m) -> DataUnknownByteStep(m)

\* flightLogParse from machine state m until it returns
RECURSIVE flightLogParseFrom(_)
flightLogParseFrom(m) ==
    IF Returned(m) THEN m ELSE flightLogParseFrom(flightLogParseStep(m))

\* flightLogParse on a session whose header lines are followed by `bytes`
flightLogParse(bytes, variant, rawFlag) ==
    flightLogParseFrom(MachineAfterHeader(bytes, variant, rawFlag))

\* ------------------------------------------------------------------------
\* Log files, flightLogCreate and the header lines of a session
\* ------------------------------------------------------------------------

\* the most sessions of one file that flightLogCreate lists
FLIGHT_LOG_MAX_LOGS_IN_FILE == 2

\* the most chunks of a file given to flightLogCreate alone
MaxFileChunks == 4

\* the most frames of a session that is the only one of its file
MaxSessionFrames == 3

\* the most calls of flightLogParse on one log object
MaxParses == 2

\* A header line "H <name>:<value>\n" is written in the files of the model
\* as the four bytes 'H', ' ', k, '\n', where the byte k stands for the text
\* <name>:<value>. LOG_START_MARKER is the header line
\* "H Product:Blackbox flight data recorder by Nicholas Sherlock\n"; like
\* that text, its model has 'H' and '\n' nowhere but at its ends.
Space == 32
Newline == 10
LineProduct == 1
LineFieldIName == 2
LineFieldIPredictor == 3
LineFieldIEncoding == 4
LineFieldPPredictor == 5
LineFieldPEncoding == 6
LineFieldGName == 7
LineFieldGPredictor == 8
LineFieldHName == 9
LineFieldISigned == 11
LineFieldIPredictorPrevious == 12

HeaderLineBytes(k) == <<MarkerH, Space, k, Newline>>

LOG_START_MARKER == HeaderLineBytes(LineProduct)

\* the text that the byte k of a header line stands for; x is the letter
\* that a line "Field X predictor" or "Field X encoding" has for its X
HeaderLineText(k) ==
    CASE k = LineProduct ->
            [name |-> "Product", value |-> <<>>]
      [] k = LineFieldIName ->
            [name |-> "Field I name", value |-> <<"loopIteration", "time">>]
      [] k = LineFieldIPredictor ->
            [name |-> "Field X predictor", x |-> MarkerI,
             value |-> <<FLIGHT_LOG_FIELD_PREDICTOR_0, FLIGHT_LOG_FIELD_PREDICTOR_0>>]
      [] k = LineFieldIEncoding ->
            [name |-> "Field X encoding", x |-> MarkerI,
             value |-> <<FLIGHT_LOG_FIELD_ENCODING_UNSIGNED_VB,
                         FLIGHT_LOG_FIELD_ENCODING_UNSIGNED_VB>>]
      [] k = LineFieldPPredictor ->
            [name |-> "Field X predictor", x |-> MarkerP,
             value |-> <<FLIGHT_LOG_FIELD_PREDICTOR_INC,
                         FLIGHT_LOG_FIELD_PREDICTOR_STRAIGHT_LINE>>]
      [] k = LineFieldPEncoding ->
            [name |-> "Field X encoding", x |-> MarkerP,
             value |-> <<FLIGHT_LOG_FIELD_ENCODING_NULL,
                         FLIGHT_LOG_FIELD_ENCODING_SIGNED_VB>>]
      [] k = LineFieldGName ->
            [name |-> "Field G name", value |-> <<"GPS_coord[0]", "GPS_coord[1]">>]
      [] k = LineFieldGPredictor ->
            [name |-> "Field X predictor", x |-> MarkerG,
             value |-> <<FLIGHT_LOG_FIELD_PREDICTOR_HOME_COORD,
                         FLIGHT_LOG_FIELD_PREDICTOR_HOME_COORD>>]
      [] k = LineFieldHName ->
            [name |-> "Field H name", value |-> <<"GPS_home[0]", "GPS_home[1]">>]
      [] k = LineFieldISigned ->
            [name |-> "Field I signed", value |-> <<0, 1>>]
      [] k = LineFieldIPredictorPrevious ->
            [name |-> "Field X predictor", x |-> MarkerI,
             value |-> <<FLIGHT_LOG_FIELD_PREDICTOR_PREVIOUS,
                         FLIGHT_LOG_FIELD_PREDICTOR_STRAIGHT_LINE>>]
      [] OTHER ->
            [name |-> "", value |-> <<>>]

\* memmem finds no occurrence
NotFound == -1

\* whether LOG_START_MARKER lies in data at the offset p, counted from 0
MarkerAt(data, p) ==
    /\ p + Len(LOG_START_MARKER) <= Len(data)
    /\ \A k \in 1..Len(LOG_START_MARKER) : data[p + k] = LOG_START_MARKER[k]

\* a variant of memmem that finds the last occurrence
memmem_Last(data, from) ==
    LET hits == {p \in from..Len(data) : MarkerAt(data, p)}
    IN IF hits = {} THEN NotFound
       ELSE CHOOSE p \in hits : \A q \in hits : q <= p

\* memmem(data + from, size - from, LOG_START_MARKER, strlen(LOG_START_MARKER))
memmem(data, from) ==
    LET hits == {p \in from..Len(data) : MarkerAt(data, p)}
    IN IF hits = {} THEN NotFound
       ELSE CHOOSE p \in hits : \A q \in hits : p <= q

\* the loop of flightLogCreate that looks for the sessions; logBegin is the
\* array filled so far, an offset from the start of the file per session
RECURSIVE logBeginLoop(_, _, _, _)
logBeginLoop(data, logIndex, logSearchStart, logBegin) ==
    IF logIndex < FLIGHT_LOG_MAX_LOGS_IN_FILE /\ logSearchStart < Len(data)
    THEN LET found == memmem(data, logSearchStart) IN
         IF found = NotFound
         THEN logBegin
         ELSE logBeginLoop(data, logIndex + 1, found + Len(LOG_START_MARKER),
                           Append(logBegin, found))
    ELSE logBegin

ZeroFrameDefs == [m \in Markers |-> [predictor |-> ZeroRecord, encoding |-> ZeroRecord]]

ZeroStats ==
    [frame |-> [m \in Markers |-> ZeroFrameStats],
     field |-> [i \in 1..FLIGHT_LOG_MAX_FIELDS |-> [min |-> FromS32(0), max |-> FromS32(0)]],
     totalCorruptFrames |-> 0,
     intentionallyAbsentIterations |-> 0,
     totalBytes |-> 0]

\* flightLogCreate on a file with the contents `data`, in a process where a
\* read through a null pointer yields nullRead: ok is FALSE where it
\* returns 0. Both structures are zeroed, then the sessions are listed:
\* logBegin[k + 1] here is the code's logBegin[k], and the entries behind
\* logBegin[logCount] are left out.
flightLogCreate(data, nullRead) ==
    IF Len(data) = 0
    THEN [ok |-> FALSE]
    ELSE LET begins == logBeginLoop(data, 0, 0, <<>>) IN
         [ok |-> TRUE,
          log |->
            [stats |-> ZeroStats,
             mainFieldCount |-> 0,
             gpsFieldCount |-> 0,
             gpsHomeFieldCount |-> 0,
             mainFieldSigned |-> ZeroRecord,
             minthrottle |-> 0,
             maxthrottle |-> 0,
             vbatref |-> 0,
             vbatscale |-> 0,
             vbatmincellvoltage |-> 0,
             vbatmaxcellvoltage |-> 0,
             vbatwarningcellvoltage |-> 0,
             frameIntervalI |-> 0,
             frameIntervalPNum |-> 0,
             frameIntervalPDenom |-> 0,
             exited |-> FALSE,
             faulted |-> FALSE,
             logCount |-> Len(begins),
             logBegin |-> Append(begins, Len(data)),
             private |->
                [data |-> data,
                 nullRead |-> nullRead,
                 logData |-> 0,
                 logStart |-> 0,
                 logPos |-> 0,
                 logEnd |-> 0,
                 eof |-> FALSE,
                 frameDefs |-> ZeroFrameDefs,
                 dataVersion |-> 0,
                 motor0Index |-> 0,
                 home0Index |-> 0,
                 home1Index |-> 0,
                 blackboxHistoryRing |-> <<ZeroRecord, ZeroRecord, ZeroRecord>>,
                 mainHistory |-> <<NULL, NULL, NULL>>,
                 mainStreamIsValid |-> FALSE,
                 gpsHomeHistory |-> <<ZeroRecord, ZeroRecord>>,
                 gpsHomeIsValid |-> FALSE,
                 lastEvent |-> [event |-> 0, data |-> <<>>],
                 lastGPS |-> ZeroRecord]]]

\* ------------------------------------------------------------------------
\* parseHeaderLine
\* ------------------------------------------------------------------------

\* the position, counted from 0, of the last of `names` that equals `name`,
\* or `unset` where there is none
LastIndexOf(names, name, unset) ==
    LET at == {i \in 1..Len(names) : names[i] = name}
    IN IF at = {} THEN unset ELSE (CHOOSE i \in at : \A j \in at : j <= i) - 1

\* the position, counted from 0, of the first of `names` that equals `name`
FirstIndexOf(names, name, unset) ==
    LET at == {i \in 1..Len(names) : names[i] = name}
    IN IF at = {} THEN unset ELSE (CHOOSE i \in at : \A j \in at : i <= j) - 1

\* parseCommaSeparatedIntegers: the values given overwrite as many entries
\* of target, at most FLIGHT_LOG_MAX_FIELDS, and the other entries stay
parseCommaSeparatedIntegers(value, target) ==
    [k \in 1..FLIGHT_LOG_MAX_FIELDS |-> IF k <= Len(value) THEN value[k] ELSE target[k]]

\* the branches of parseHeaderLine on the name of the line
applyHeaderLine(log, line) ==
    CASE line.name = "Field I name" ->
            [log EXCEPT !.mainFieldCount = Len(line.value),
                        !.private.motor0Index = FirstIndexOf(line.value, "motor[0]", @)]
      [] line.name = "Field G name" ->
            [log EXCEPT !.gpsFieldCount = Len(line.value)]
      [] line.name = "Field H name" ->
            [log EXCEPT !.gpsHomeFieldCount = Len(line.value),
                        !.private.home0Index = LastIndexOf(line.value, "GPS_home[0]", @),
                        !.private.home1Index = LastIndexOf(line.value, "GPS_home[1]", @)]
      [] line.name = "Field X predictor" ->
            [log EXCEPT !.private.frameDefs[line.x].predictor =
                            parseCommaSeparatedIntegers(line.value, @)]
      [] line.name = "Field X encoding" ->
            [log EXCEPT !.private.frameDefs[line.x].encoding =
                            parseCommaSeparatedIntegers(line.value, @)]
      [] line.name = "Field I signed" ->
            [log EXCEPT !.mainFieldSigned = parseCommaSeparatedIntegers(line.value, @)]
      [] OTHER -> log

\* the loop of parseHeaderLine that reads the line: `text` is what was read
\* before the newline, and ended is FALSE where the function returns at EOF
\* or at a zero byte. The lines of the model are far shorter than the 1024
\* characters at which the loop would stop.
RECURSIVE readHeaderLine(_, _)
readHeaderLine(log, text) ==
    LET r == readChar(log) IN
    IF r.c = Newline THEN [log |-> r.log, text |-> text, ended |-> TRUE]
    ELSE IF r.c = EOF \/ r.c = 0 THEN [log |-> r.log, text |-> text, ended |-> FALSE]
    ELSE readHeaderLine(r.log, Append(text, r.c))

\* What `*log->private->logPos` can yield. The cursor is not compared with
\* logEnd: behind the last byte of the session lies the next session, and
\* behind the last byte of the file the read is outside the mapped file and
\* yields whatever byte lies there, a space or another one, or faults.
NextByteOutcomes(log) ==
    IF log.private.logPos < Len(log.private.data)
    THEN {log.private.data[log.private.logPos + 1]}
    ELSE {0, Space, Unmapped}

\* parseHeaderLine, called when 'H' was read, where *logPos yields `next`.
\* A line whose text is one byte of HeaderLineText has that name and value;
\* any other text is a line with no ':' or with a name that no branch knows.
parseHeaderLine(log, next) ==
    IF next # Space
    THEN log
    ELSE LET r == readHeaderLine([log EXCEPT !.private.logPos = @ + 1], <<>>) IN
         IF ~r.ended \/ Len(r.text) # 1
         THEN r.log
         ELSE applyHeaderLine(r.log, HeaderLineText(r.text[1]))

\* PARSER_STATE_HEADER, `case 'H'`
HeaderLineStep(m, next) ==
    LET m1 == ReadCommand(m) IN
    IF next = Unmapped
    THEN [m1 EXCEPT !.pc = "fault"]
    ELSE [m1 EXCEPT !.log = parseHeaderLine(m1.log, next)]

AtHeaderLine(m) ==
    m.pc = "loop" /\ m.parserState = PARSER_STATE_HEADER /\ Peek(m) = MarkerH

\* ------------------------------------------------------------------------
\* The entry of flightLogParse
\* ------------------------------------------------------------------------

\* the resets and defaults at the entry of flightLogParse, for a logIndex
\* in range
flightLogParseReset(log, logIndex) ==
    LET log1 == [log EXCEPT
                    !.stats = ZeroStats,
                    !.mainFieldCount = 0,
                    !.gpsFieldCount = 0,
                    !.gpsHomeFieldCount = 0,
                    !.private.gpsHomeIsValid = FALSE]
        log2 == flightLoginvalidateStream(log1)
    IN [log2 EXCEPT
            !.private.mainHistory[1] = 1,
            !.minthrottle = 1150,
            !.maxthrottle = 1850,
            !.vbatref = 4095,
            !.vbatscale = 110,
            !.vbatmincellvoltage = 33,
            !.vbatmaxcellvoltage = 43,
            !.vbatwarningcellvoltage = 35,
            !.frameIntervalI = 32,
            !.frameIntervalPNum = 1,
            !.frameIntervalPDenom = 1,
            !.private.motor0Index = -1,
            !.private.home0Index = -1,
            !.private.home1Index = -1,
            !.private.lastEvent.event = -1,
            !.private.logStart = log.logBegin[logIndex + 1],
            !.private.logPos = log.logBegin[logIndex + 1],
            !.private.logEnd = log.logBegin[logIndex + 2],
            !.private.eof = FALSE]

\* one call of flightLogParse, as the trace of calls records it
ParseCall(logIndex) == [cb |-> "flightLogParse", logIndex |-> logIndex]

\* a variant of flightLogParseEntry that clears the statistics before it
\* looks at logIndex
flightLogParseEntry_ResetsFirst(m, logIndex, rawFlag) ==
    LET called == [m EXCEPT !.calls = Append(@, ParseCall(logIndex)),
                            !.log.stats = ZeroStats] IN
    IF logIndex < 0 \/ logIndex >= m.log.logCount
    THEN [called EXCEPT !.pc = "failed"]
    ELSE [called EXCEPT !.raw = rawFlag,
                        !.log = flightLogParseReset(m.log, logIndex),
                        !.parserState = PARSER_STATE_HEADER,
                        !.lastFrameType = NULL,
                        !.frameStart = 0,
                        !.prematureEof = FALSE,
                        !.command = 0,
                        !.pc = "loop"]

\* flightLogParse(log, logIndex, ..., raw) up to its main loop, on the log
\* object of the machine m; the function returns false at once where
\* logIndex is out of range
flightLogParseEntry(m, logIndex, rawFlag) ==
    LET called == [m EXCEPT !.calls = Append(@, ParseCall(logIndex))] IN
    IF logIndex < 0 \/ logIndex >= m.log.logCount
    THEN [called EXCEPT !.pc = "failed"]
    ELSE [called EXCEPT !.raw = rawFlag,
                        !.log = flightLogParseReset(m.log, logIndex),
                        !.parserState = PARSER_STATE_HEADER,
                        !.lastFrameType = NULL,
                        !.frameStart = 0,
                        !.prematureEof = FALSE,
                        !.command = 0,
                        !.pc = "loop"]

\* the calls of flightLogParse made so far
ParseCount(m) == Len(SelectSeq(m.calls, LAMBDA c : c.cb = "flightLogParse"))

\* flightLogParse can be called on a log object that exists, when no call
\* of it is under way
AtParseBegin(m) ==
    m.pc \in {"created", "done", "failed"} /\ ParseCount(m) < MaxParses


\* the machine before flightLogCreate is called on a file, in a process
\* where a read through a null pointer yields nullRead
MachineOfFile(data, nullRead) ==
    [raw |-> FALSE,
     log |-> [private |-> [data |-> data, nullRead |-> nullRead]],
     calls |-> <<>>,
     parserState |-> PARSER_STATE_HEADER,
     lastFrameType |-> NULL,
     frameStart |-> 0,
     prematureEof |-> FALSE,
     command |-> 0,
     pc |-> "create"]

CreateStep(m) ==
    LET r == flightLogCreate(m.log.private.data, m.log.private.nullRead) IN
    IF r.ok THEN [m EXCEPT !.log = r.log, !.pc = "created"]
    ELSE [m EXCEPT !.pc = "nolog"]

AtCreate(m) == m.pc = "create"

\* ------------------------------------------------------------------------
\* Battery cell estimate
\* ------------------------------------------------------------------------

\* (uint16_t) of an int
U16(a) == a % 65536

\* flightLogVbatToMillivolts; the calibrations of the model keep the
\* product within an int
flightLogVbatToMillivolts(log, vbat) == (vbat * 330 * log.vbatscale) \div 4095

\* the loop of flightLogEstimateNumCells from i on: the value of i at which
\* it ends
RECURSIVE estimateNumCellsLoop(_, _, _)
estimateNumCellsLoop(log, refVoltage, i) ==
    IF i < 8 /\ ~(refVoltage < i * log.vbatmaxcellvoltage)
    THEN estimateNumCellsLoop(log, refVoltage, i + 1)
    ELSE i

flightLogEstimateNumCells(log) ==
    LET refVoltage == flightLogVbatToMillivolts(log, U16(log.vbatref)) \div 100
    IN estimateNumCellsLoop(log, refVoltage, 1)

\* one call of flightLogEstimateNumCells and its result, as the trace of
\* calls records it
EstimateCall(result) == [cb |-> "flightLogEstimateNumCells", result |-> result]

EstimateNumCellsStep(m) ==
    [m EXCEPT !.calls = Append(@, EstimateCall(flightLogEstimateNumCells(m.log))),
              !.pc = "estimated"]

AtEstimateNumCells(m) == m.pc = "estimate"

\* the log object of a session parsed whose header gave the calibration
MachineWithCalibration(vbatref, vbatscale, vbatmaxcellvoltage) ==
    [MachineAfterHeader(<<>>, "inc", FALSE) EXCEPT
        !.log.vbatref = vbatref,
        !.log.vbatscale = vbatscale,
        !.log.vbatmaxcellvoltage = vbatmaxcellvoltage,
        !.pc = "estimate"]

\* ------------------------------------------------------------------------
\* Decoding a stream of variable-byte integers
\* ------------------------------------------------------------------------

\* the longest stream of bytes decoded
MaxVarintBytes == 6

\* one call of readUnsignedVB with the cursor at offset `from`, and its result
VarintCall(from, result) == [cb |-> "readUnsignedVB", from |-> from, result |-> result]

ReadUnsignedVBStep(m) ==
    LET r == readUnsignedVB(m.log) IN
    [m EXCEPT !.log = r.log,
              !.calls = Append(@, VarintCall(m.log.private.logPos, r.v))]

\* the stream is decoded until a read has met its end
AtReadUnsignedVB(m) == m.pc = "varint" /\ ~m.log.private.eof

\* a region of bytes with the cursor at its start
MachineOfStream(bytes) == [MachineAfterHeader(bytes, "inc", FALSE) EXCEPT !.pc = "varint"]

\* the machine behind the header lines of a session whose header also has
\* the lines 'I interval:<i>' and 'P interval:<num>/<denom>'
MachineSampled(bytes, i, num, denom) ==
    [MachineAfterHeader(bytes, "inc", FALSE) EXCEPT
        !.log.frameIntervalI = IF i < 1 THEN 1 ELSE i,
        !.log.frameIntervalPNum = num,
        !.log.frameIntervalPDenom = denom]

\* ------------------------------------------------------------------------
\* Applying the predictor AVERAGE_2
\* ------------------------------------------------------------------------

\* one call of applyPrediction for the first field with the residual `value`,
\* and the value it returns
PredictionCall(value, result) == [cb |-> "applyPrediction", value |-> value, result |-> result]

ApplyAverageStep(m, value) ==
    LET h == m.log.private.mainHistory
        p == applyPrediction(m.log, 1, FLIGHT_LOG_FIELD_PREDICTOR_AVERAGE_2, value,
                             Deref(m.log, h[1]), Deref(m.log, h[2]), Deref(m.log, h[3]))
    IN [m EXCEPT !.calls = Append(@, PredictionCall(value, p.v)), !.pc = "predicted"]

AtApplyAverage(m) == m.pc = "predict"

\* the machine with the first field declared signed or not and the values p
\* and pp of that field in the previous and the previous-previous record
MachineWithHistory(signed, p, pp) ==
    [MachineAfterHeader(<<>>, "encoded", FALSE) EXCEPT
        !.log.mainFieldSigned[1] = signed,
        !.log.private.blackboxHistoryRing[2][1] = p,
        !.log.private.blackboxHistoryRing[3][1] = pp,
        !.log.private.mainHistory = <<1, 2, 3>>,
        !.log.private.mainStreamIsValid = TRUE,
        !.pc = "predict"]

\* the machine behind the header lines of a session whose header names two
\* main fields and declares, for the frames of kind frameType, fieldCount
\* fields with the encodings `encoding` and the predictor 0 ('Data version'
\* gives dataVersion)
MachineGrouped(bytes, frameType, fieldCount, encoding, dataVersion) ==
    LET m == MachineAfterHeader(bytes, "inc", FALSE) IN
    [m EXCEPT
        !.log.mainFieldCount = IF frameType = MarkerI THEN fieldCount ELSE @,
        !.log.gpsFieldCount = IF frameType = MarkerG THEN fieldCount ELSE @,
        !.log.private.dataVersion = dataVersion,
        !.log.private.frameDefs[frameType] =
            [predictor |-> Pad(<<>>), encoding |-> Pad(encoding)]]

\* ------------------------------------------------------------------------
\* Counting the iterations that the sampling rate left out
\* ------------------------------------------------------------------------

\* the most iterations of the loop that are followed
MaxSkipped == 5

\* the locals of the loop of parseIntraframe and parseInterframe
SkippedCall(frameIndex, skippedFrames) ==
    [cb |-> "countSkippedFrames", frameIndex |-> frameIndex, skippedFrames |-> skippedFrames]

\* What the test shouldHaveFrame(log, frameIndex) of the loop can yield:
\* "pass" or "skip". With frameIntervalPDenom = 0 the second % divides by
\* zero: the behaviour is undefined, the process is stopped by a signal
\* ("trap") where the division instruction traps, and the remainder is the
\* dividend where it quietly yields the quotient 0.
shouldHaveFrameResults(log, frameIndex) ==
    IF log.frameIntervalPDenom = 0
    THEN {"trap",
          IF CRem(frameIndex, log.frameIntervalI) + log.frameIntervalPNum - 1
                 < log.frameIntervalPNum
          THEN "pass" ELSE "skip"}
    ELSE {IF shouldHaveFrame(log, frameIndex) THEN "pass" ELSE "skip"}

\* one test of the loop `for (frameIndex = previous[ITERATION] + 1;
\* !shouldHaveFrame(log, frameIndex); frameIndex++) skippedFrames++`
CountSkippedStep(m, result) ==
    LET l == m.calls[1] IN
    CASE result = "trap" -> [m EXCEPT !.pc = "fault"]
      [] result = "pass" -> [m EXCEPT !.pc = "counted"]
      [] OTHER -> [m EXCEPT !.calls = <<SkippedCall(Add32(l.frameIndex, 1),
                                                    l.skippedFrames + 1)>>]

AtCountSkipped(m) == m.pc = "counting" /\ m.calls[1].skippedFrames < MaxSkipped

\* the machine at the start of the loop, in a frame parse of a session whose
\* header has the lines 'I interval:<i>' and 'P interval:<num>/<denom>',
\* after a frame of the iteration previousIteration
MachineCounting(previousIteration, i, num, denom) ==
    [MachineSampled(<<>>, i, num, denom) EXCEPT
        !.pc = "counting",
        !.calls = <<SkippedCall(Add32(previousIteration, 1), 0)>>]

\* ------------------------------------------------------------------------
\* The state machine
\* ------------------------------------------------------------------------

VARIABLES raw, log, calls, parserState, lastFrameType, frameStart, prematureEof,
          command, pc

vars == <<raw, log, calls, parserState, lastFrameType, frameStart, prematureEof,
          command, pc>>

Cur ==
    [raw |-> raw, log |-> log, calls |-> calls, parserState |-> parserState,
     lastFrameType |-> lastFrameType, frameStart |-> frameStart,
     prematureEof |-> prematureEof, command |-> command, pc |-> pc]

Set(next) ==
    \E m \in {next} :
    /\ raw' = m.raw
    /\ log' = m.log
    /\ calls' = m.calls
    /\ parserState' = m.parserState
    /\ lastFrameType' = m.lastFrameType
    /\ frameStart' = m.frameStart
    /\ prematureEof' = m.prematureEof
    /\ command' = m.command
    /\ pc' = m.pc

\* the bytes that occur in the modelled sessions: the markers I and P, 0 (a
\* final varint byte) and 128 (a varint continuation byte); both are garbage
\* where a marker is expected
Alphabet == {MarkerI, MarkerP, 0, 128}

\* the sessions with event frames: the marker E instead of P; 0 is the
\* sync-beep event kind, every other byte an unknown event kind
EventAlphabet == {MarkerI, MarkerE, 0, 128}

\* the byte strings over `alphabet` of length at most n
RECURSIVE Strings(_, _)
Strings(alphabet, n) ==
    IF n = 0 THEN {<<>>}
    ELSE LET shorter == Strings(alphabet, n - 1) IN
         shorter \cup {Append(w, b) : w \in {x \in shorter : Len(x) = n - 1}, b \in alphabet}

\* the header variant and the raw argument of the modelled invocations
Invocations == {<<"inc", FALSE>>, <<"encoded", FALSE>>, <<"inc", TRUE>>}

\* sessions made of whole chunks: keyframes with the values (0,0), (1,1) and
\* (80,0), whose first payload byte is the marker P, P frames with the
\* residual 0 and -1, and a byte that is no marker
Chunks == {<<MarkerI, 0, 0>>, <<MarkerI, 1, 1>>, <<MarkerI, MarkerP, 0>>,
           <<MarkerP, 0>>, <<MarkerP, 1>>, <<128>>}

\* the concatenations of at most n chunks
RECURSIVE Concatenations(_, _)
Concatenations(chunks, n) ==
    IF n = 0 THEN {<<>>}
    ELSE LET shorter == Concatenations(chunks, n - 1) IN
         shorter \cup {w \o c : w \in shorter, c \in chunks}

InitOver(inputs, invocations) ==
    \E bytes \in inputs, inv \in invocations :
        \E m \in {MachineAfterHeader(bytes, inv[1], inv[2])} :
            /\ raw = m.raw
            /\ log = m.log
            /\ calls = m.calls
            /\ parserState = m.parserState
            /\ lastFrameType = m.lastFrameType
            /\ frameStart = m.frameStart
            /\ prematureEof = m.prematureEof
            /\ command = m.command
            /\ pc = m.pc

Init == InitOver(Strings(Alphabet, MaxLen), Invocations)

InitEvent == InitOver(Strings(EventAlphabet, MaxLen), {<<"inc", FALSE>>})

InitFrames == InitOver(Concatenations(Chunks, MaxFrames), Invocations)

HeaderEof == \E m \in {Cur} : AtHeaderEof(m) /\ Set(HeaderEofStep(m))

HeaderSkip == \E m \in {Cur} : AtHeaderSkip(m) /\ Set(HeaderSkipStep(m))

HeaderFinalize == \E m \in {Cur} : AtHeaderFinalize(m) /\ Set(HeaderFinalizeStep(m))

DataFrameCompleted == \E m \in {Cur} : AtDataFrameCompleted(m) /\ Set(DataFrameCompletedStep(m))

DataFrameCorrupt == \E m \in {Cur} : AtDataFrameCorrupt(m) /\ Set(DataFrameCorruptStep(m))

DataNoFrame == \E m \in {Cur} : AtDataNoFrame(m) /\ Set(DataNoFrameStep(m))

DataEof == \E m \in {Cur} : AtDataEof(m) /\ Set(DataEofStep(m))

DataParseFrame == \E m \in {Cur} : AtDataParseFrame(m) /\ Set(DataParseFrameStep(m))

DataUnknownByte == \E m \in {Cur} : AtDataUnknownByte(m) /\ Set(DataUnknownByteStep(m))

Next ==
    \/ HeaderEof
    \/ HeaderSkip
    \/ HeaderFinalize
    \/ DataFrameCompleted
    \/ DataFrameCorrupt
    \/ DataNoFrame
    \/ DataEof
    \/ DataParseFrame
    \/ DataUnknownByte

Spec == Init /\ [][Next]_vars

SpecEvent == InitEvent /\ [][Next]_vars

SpecFrames == InitFrames /\ [][Next]_vars

\* ------------------------------------------------------------------------
\* Vocabulary of the properties
\* ------------------------------------------------------------------------

IsFrameCall(c) == c.cb = "onFrameReady"

\* the notification of a corrupt frame: valid=false and no field pointer
IsCorruptCall(c) == IsFrameCall(c) /\ ~c.valid /\ c.frame = NullRecord

\* a frame of kind `marker` delivered with its fields
IsDelivered(c, marker) == IsFrameCall(c) /\ c.frame # NullRecord /\ c.frameType = marker

IsValidDelivered(c, marker) == IsDelivered(c, marker) /\ c.valid

\* the onFrameReady calls among the calls cs, in order
FrameCallsOf(cs) == SelectSeq(cs, IsFrameCall)

FrameCalls == FrameCallsOf(calls)

\* (uint32_t) a <= (uint32_t) b, written without the operators of the model
UnsignedLeq(a, b) ==
    LET ua == IF a < 0 THEN <<1, a - INT32_MIN>> ELSE <<0, a>>
        ub == IF b < 0 THEN <<1, b - INT32_MIN>> ELSE <<0, b>>
    IN ua[1] < ub[1] \/ (ua[1] = ub[1] /\ ua[2] <= ub[2])

\* the step that the machine takes next, in a state that has one
NextState == flightLogParseStep(Cur)

\* ------------------------------------------------------------------------
\* C1
\* ------------------------------------------------------------------------

\* C1: once a frame has been reported corrupt, no P frame is delivered with
\* valid=true before an I frame has been delivered with valid=true; and the
\* completion of a P frame never turns the main-stream-valid flag on.
C1_NoValidPAfterCorrupt ==
    /\ \A i \in 1..Len(calls) : \A j \in (i + 1)..Len(calls) :
          (IsCorruptCall(calls[i]) /\ IsValidDelivered(calls[j], MarkerP))
             => \E k \in (i + 1)..(j - 1) : IsValidDelivered(calls[k], MarkerI)
    /\ (AtDataFrameCompleted(Cur) /\ lastFrameType = MarkerP)
          => (NextState.log.private.mainStreamIsValid => log.private.mainStreamIsValid)

\* a valid keyframe, then a corrupt frame, then a P frame delivered as invalid
C1_Witness ==
    \E h \in 1..Len(calls) : \E i \in (h + 1)..Len(calls) : \E j \in (i + 1)..Len(calls) :
        /\ IsValidDelivered(calls[h], MarkerI)
        /\ IsCorruptCall(calls[i])
        /\ IsDelivered(calls[j], MarkerP) /\ ~calls[j].valid

\* ------------------------------------------------------------------------
\* C3
\* ------------------------------------------------------------------------

\* C3: whenever the main stream is marked invalid, the previous and the
\* previous-previous history slots are cleared, so that a frame parsed while
\* the stream is invalid is decoded with no previous record.
C3_InvalidStreamHasNoHistory ==
    ~log.private.mainStreamIsValid
        => (log.private.mainHistory[2] = NULL /\ log.private.mainHistory[3] = NULL)

\* ------------------------------------------------------------------------
\* C4
\* ------------------------------------------------------------------------

\* the keyframe that is about to be completed, and whether it moves forward
KeyframeAtCompletion == log.private.blackboxHistoryRing[log.private.mainHistory[1]]

MovesForward ==
    /\ UnsignedLeq(log.stats.field[FLIGHT_LOG_FIELD_INDEX_ITERATION].max[2],
                   KeyframeAtCompletion[FLIGHT_LOG_FIELD_INDEX_ITERATION])
    /\ UnsignedLeq(log.stats.field[FLIGHT_LOG_FIELD_INDEX_TIME].max[2],
                   KeyframeAtCompletion[FLIGHT_LOG_FIELD_INDEX_TIME])

\* a record lies within the recorded minima and maxima of the (unsigned) fields
WithinStatistics(record, stats) ==
    \A i \in 1..log.mainFieldCount :
        UnsignedLeq(stats.field[i].min[2], record[i]) /\ UnsignedLeq(record[i], stats.field[i].max[2])

\* C4: the completion of a well-formed keyframe marks the main stream valid
\* and updates the field statistics exactly when raw is set or both its
\* iteration and its timestamp are at least the recorded maxima; otherwise
\* it invalidates the stream, delivers the keyframe with valid=false, and
\* leaves the history ring and the field statistics as they are.
C4_KeyframeAcceptance ==
    (AtDataFrameCompleted(Cur) /\ lastFrameType = MarkerI) =>
        LET n == NextState
            call == n.calls[Len(n.calls)]
        IN
        /\ Len(n.calls) = Len(calls) + 1
        /\ IsDelivered(call, MarkerI)
        /\ call.frame = Fields(KeyframeAtCompletion, log.mainFieldCount)
        /\ IF raw \/ MovesForward
           THEN /\ n.log.private.mainStreamIsValid
                /\ call.valid
                /\ WithinStatistics(KeyframeAtCompletion, n.log.stats)
                /\ n.log.private.mainHistory[2] = log.private.mainHistory[1]
                /\ n.log.private.mainHistory[3] = log.private.mainHistory[1]
                /\ n.log.private.mainHistory[1] # log.private.mainHistory[1]
           ELSE /\ ~n.log.private.mainStreamIsValid
                /\ ~call.valid
                /\ n.log.private.mainHistory[1] = log.private.mainHistory[1]
                /\ n.log.private.mainHistory[2] = NULL
                /\ n.log.private.mainHistory[3] = NULL
                /\ n.log.stats.field = log.stats.field

\* a keyframe has just been rejected for an iteration counter below the
\* recorded maximum, after a keyframe had been accepted
C4_Witness ==
    /\ pc = "begin"
    /\ Len(calls) >= 3
    /\ IsDelivered(calls[Len(calls)], MarkerI) /\ ~calls[Len(calls)].valid
    /\ IsValidDelivered(calls[Len(calls) - 1], MarkerI)
    /\ ~UnsignedLeq(calls[Len(calls) - 1].frame[FLIGHT_LOG_FIELD_INDEX_ITERATION],
                    calls[Len(calls)].frame[FLIGHT_LOG_FIELD_INDEX_ITERATION])
    /\ ~log.private.mainStreamIsValid

\* ------------------------------------------------------------------------
\* C5
\* ------------------------------------------------------------------------

\* C5: in a parse that is not raw, a keyframe delivered with valid=true has
\* an iteration counter and a timestamp that are at least those of every
\* main frame delivered with valid=true before it (as unsigned quantities).
C5_ValidKeyframesMonotonic ==
    ~raw =>
        \A i \in 1..Len(calls) : \A j \in (i + 1)..Len(calls) :
            (/\ IsValidDelivered(calls[i], MarkerI) \/ IsValidDelivered(calls[i], MarkerP)
             /\ IsValidDelivered(calls[j], MarkerI))
            => /\ UnsignedLeq(calls[i].frame[FLIGHT_LOG_FIELD_INDEX_ITERATION],
                              calls[j].frame[FLIGHT_LOG_FIELD_INDEX_ITERATION])
               /\ UnsignedLeq(calls[i].frame[FLIGHT_LOG_FIELD_INDEX_TIME],
                              calls[j].frame[FLIGHT_LOG_FIELD_INDEX_TIME])

\* a valid keyframe, a valid P frame that moves the values, and a later
\* valid keyframe with larger values
C5_Witness ==
    /\ ~raw
    /\ \E i \in 1..Len(calls) : \E j \in (i + 1)..Len(calls) :
          /\ IsValidDelivered(calls[i], MarkerP)
          /\ IsValidDelivered(calls[j], MarkerI)
          /\ calls[i].frame[FLIGHT_LOG_FIELD_INDEX_ITERATION] > 0

\* ------------------------------------------------------------------------
\* C6
\* ------------------------------------------------------------------------

\* a frame has been parsed and the loop is about to judge it
AwaitingVerdict == pc = "loop" /\ parserState = PARSER_STATE_DATA /\ lastFrameType # NULL

\* the byte that follows the parsed frame, EOF at the end of the data
FollowingByte ==
    IF log.private.logPos < log.private.logEnd
    THEN log.private.data[log.private.logPos + 1]
    ELSE EOF

\* the length by which the loop judges the parsed frame: from the byte after
\* its marker up to and including the byte read next
FrameLength ==
    log.private.logPos - frameStart
        + (IF log.private.logPos < log.private.logEnd THEN 1 ELSE 0)

ZeroPadding == [i \in 1..(5 * FLIGHT_LOG_MAX_FIELDS + 2) |-> 0]

\* the data ended inside the parsed frame: on the data continued with zero
\* bytes the same frame reads past the end of the real data
EofMidFrame ==
    LET padded == [log EXCEPT !.private.data = @ \o ZeroPadding,
                              !.private.logEnd = @ + Len(ZeroPadding),
                              !.private.logPos = frameStart,
                              !.private.eof = FALSE]
    IN FrameTypeParse(lastFrameType, padded, raw).private.logPos > log.private.logEnd

LooksWellFormed ==
    /\ FrameLength <= FLIGHT_LOG_MAX_FRAME_LENGTH
    /\ \/ FollowingByte \in Markers
       \/ (FollowingByte = EOF /\ ~EofMidFrame)

\* C6: the frame parsed last is treated as well-formed (its valid count goes
\* up by one, its bytes and its size histogram are updated, its completion
\* step runs) exactly when its length is at most FLIGHT_LOG_MAX_FRAME_LENGTH
\* and the byte read next is a frame marker, or the end of the data that did
\* not fall inside the frame; otherwise it is counted and reported as corrupt
\* and its completion step does not run.
C6_WellFormedIffLengthAndFollower ==
    AwaitingVerdict =>
        LET n == NextState
            before == log.stats.frame[lastFrameType]
            after == n.log.stats.frame[lastFrameType]
            call == n.calls[Len(n.calls)]
        IN
        /\ Len(n.calls) = Len(calls) + 1
        /\ IF LooksWellFormed
           THEN /\ after.validCount = before.validCount + 1
                /\ after.bytes = before.bytes + FrameLength
                /\ after.sizeCount = [before.sizeCount EXCEPT ![FrameLength] = @ + 1]
                /\ after.corruptCount = before.corruptCount
                /\ n.log.stats.totalCorruptFrames = log.stats.totalCorruptFrames
                /\ IsDelivered(call, lastFrameType)
                /\ call.frameSize = FrameLength
           ELSE /\ after.validCount = before.validCount
                /\ after.bytes = before.bytes
                /\ after.sizeCount = before.sizeCount
                /\ after.corruptCount = before.corruptCount + 1
                /\ IsCorruptCall(call)

\* a frame that ended before the data did and is followed by a marker, but is
\* too long, has just been reported as corrupt
C6_Witness ==
    /\ pc = "loop" /\ lastFrameType = NULL
    /\ Len(calls) >= 1
    /\ IsCorruptCall(calls[Len(calls)])
    /\ calls[Len(calls)].frameSize > FLIGHT_LOG_MAX_FRAME_LENGTH
    /\ calls[Len(calls)].frameOffset + calls[Len(calls)].frameSize <= log.private.logEnd
    /\ log.private.data[calls[Len(calls)].frameOffset + calls[Len(calls)].frameSize] \in Markers

\* ------------------------------------------------------------------------
\* C7
\* ------------------------------------------------------------------------

\* the offsets of the bytes that the run from m dispatches on as candidate
\* frame markers
RECURSIVE ExaminedFrom(_)
ExaminedFrom(m) ==
    IF Returned(m) THEN {}
    ELSE (IF m.pc = "begin" /\ m.command # EOF THEN {m.log.private.logPos - 1} ELSE {})
         \cup ExaminedFrom(flightLogParseStep(m))

\* the offsets of the bytes that the run from m reads as the payload of a
\* frame whose marker it has dispatched on
RECURSIVE PayloadFrom(_)
PayloadFrom(m) ==
    IF Returned(m) THEN {}
    ELSE LET n == flightLogParseStep(m) IN
         (IF AtDataParseFrame(m) THEN n.frameStart..(n.log.private.logPos - 1) ELSE {})
         \cup PayloadFrom(n)

\* what every report of a corrupt frame does to the counters and the callback
CorruptFrameReported(n) ==
    /\ n.log.stats.frame[lastFrameType].corruptCount
          = log.stats.frame[lastFrameType].corruptCount + 1
    /\ n.log.stats.totalCorruptFrames = log.stats.totalCorruptFrames + 1
    /\ Len(n.calls) = Len(calls) + 1
    /\ SubSeq(n.calls, 1, Len(calls)) = calls
    /\ IsCorruptCall(n.calls[Len(n.calls)])
    /\ n.calls[Len(n.calls)].frameType = lastFrameType
    /\ n.calls[Len(n.calls)].fieldCount = 0

\* C7 as stated: every report of a corrupt frame adds one to the corrupt
\* count of its kind and to totalCorruptFrames, calls onFrameReady once with
\* valid=false, no field pointer and a field count of 0, and every byte after
\* the marker of the corrupt frame is examined again as a candidate marker.
C7_EveryByteReexamined ==
    (AwaitingVerdict /\ AtDataFrameCorrupt(Cur)) =>
        LET n == NextState IN
        /\ CorruptFrameReported(n)
        /\ \A p \in frameStart..(log.private.logEnd - 1) : p \in ExaminedFrom(n)

\* C7, amended: the counters and the callback as stated; scanning resumes at
\* the byte right after the marker of the corrupt frame, which is the next
\* byte examined as a candidate marker, and every later byte is examined as
\* a candidate marker or read as the payload of a frame found by that scan.
C7_ScanResumesAfterMarker ==
    (AwaitingVerdict /\ AtDataFrameCorrupt(Cur)) =>
        LET n == NextState IN
        /\ CorruptFrameReported(n)
        /\ n.log.private.logPos = frameStart
        /\ n.lastFrameType = NULL
        /\ frameStart < log.private.logEnd => frameStart \in ExaminedFrom(n)
        /\ \A p \in frameStart..(log.private.logEnd - 1) :
              p \in ExaminedFrom(n) \cup PayloadFrom(n)

\* a corrupt frame has been reported whose payload held a frame marker, and
\* the frame found there has been parsed
C7_Witness ==
    /\ AwaitingVerdict
    /\ Len(calls) >= 1
    /\ IsCorruptCall(calls[Len(calls)])
    /\ calls[Len(calls)].frameOffset < frameStart
    /\ frameStart - 1 < calls[Len(calls)].frameOffset + calls[Len(calls)].frameSize

\* ------------------------------------------------------------------------
\* C10
\* ------------------------------------------------------------------------

\* the event kinds that parseEventFrame knows
KnownEvents == {FLIGHT_LOG_EVENT_SYNC_BEEP, FLIGHT_LOG_EVENT_AUTOTUNE_CYCLE_START,
                FLIGHT_LOG_EVENT_AUTOTUNE_CYCLE_RESULT}

\* C10: when a well-formed E frame carries an event kind that is not known,
\* the stored event kind is -1, onEvent is not invoked for the frame, and
\* the decoding of the following frames continues.
C10_UnknownEventNotReported ==
    (/\ AtDataFrameCompleted(Cur)
     /\ lastFrameType = MarkerE
     /\ log.private.data[frameStart + 1] \notin KnownEvents)
    => /\ log.private.lastEvent.event = -1
       /\ NextState.calls = calls
       /\ NextState.pc = "begin"

\* ------------------------------------------------------------------------
\* The grammar of well-formed main frames, independent of the parser
\* ------------------------------------------------------------------------

MainMarkers == {MarkerI, MarkerP}

\* the number of fields of a frame kind that take bytes of the stream
EncodedFields(marker) ==
    Cardinality({i \in 1..log.mainFieldCount :
                    log.private.frameDefs[marker].encoding[i] # FLIGHT_LOG_FIELD_ENCODING_NULL})

\* the offset after the variable-byte integer at offset pos of which i bytes
\* have been taken, -1 when the data ends inside it
RECURSIVE VarintEnd(_, _, _)
VarintEnd(data, pos, i) ==
    IF pos >= Len(data) THEN -1
    ELSE IF data[pos + 1] < 128 \/ i = 4 THEN pos + 1
    ELSE VarintEnd(data, pos + 1, i + 1)

RECURSIVE FieldsEnd(_, _, _)
FieldsEnd(data, pos, n) ==
    IF n = 0 THEN pos
    ELSE LET e == VarintEnd(data, pos, 0) IN
         IF e = -1 THEN -1 ELSE FieldsEnd(data, e, n - 1)

\* the offset after the main frame whose marker is at offset pos, -1 when the
\* data ends inside the frame
FrameEnd(data, pos) == FieldsEnd(data, pos + 1, EncodedFields(data[pos + 1]))

\* the offsets of the markers of the frames when the data from offset pos on
\* is a sequence of whole main frames of at most FLIGHT_LOG_MAX_FRAME_LENGTH
\* bytes; a sequence with the element -1 otherwise
RECURSIVE FrameStartsFrom(_, _)
FrameStartsFrom(data, pos) ==
    IF pos >= Len(data) THEN <<>>
    ELSE IF data[pos + 1] \notin MainMarkers THEN <<-1>>
    ELSE LET e == FrameEnd(data, pos) IN
         IF e = -1 \/ e - pos > FLIGHT_LOG_MAX_FRAME_LENGTH THEN <<-1>>
         ELSE <<pos>> \o FrameStartsFrom(data, e)

IsFrameSequence(data) ==
    LET starts == FrameStartsFrom(data, 0) IN
    Len(starts) >= 1 /\ \A i \in 1..Len(starts) : starts[i] # -1

\* the offset of the marker of a P frame that the end of the data cuts short
\* after a sequence of whole frames from offset pos on, -1 when there is none
RECURSIVE TruncatedTail(_, _)
TruncatedTail(data, pos) ==
    IF pos >= Len(data) \/ data[pos + 1] \notin MainMarkers THEN -1
    ELSE LET e == FrameEnd(data, pos) IN
         IF e = -1 THEN (IF data[pos + 1] = MarkerP THEN pos ELSE -1)
         ELSE IF e - pos > FLIGHT_LOG_MAX_FRAME_LENGTH THEN -1
         ELSE TruncatedTail(data, e)

CorruptCalls == {i \in 1..Len(calls) : IsCorruptCall(calls[i])}

\* ------------------------------------------------------------------------
\* C8
\* ------------------------------------------------------------------------

\* the last frame is the only one reported corrupt, and it is the P frame at
\* offset t
OnlyTailCorrupt(t) ==
    /\ log.stats.totalCorruptFrames = 1
    /\ CorruptCalls = {Len(calls)}
    /\ calls[Len(calls)].frameType = MarkerP
    /\ calls[Len(calls)].frameOffset = t + 1

\* C8 as stated: in a session of well-formed frames that ends with a P frame
\* cut short by the end of the data, the last frame is reported corrupt and
\* totalCorruptFrames is 1, whatever the bytes of the cut payload are.
C8_TruncatedTailAnyPayload ==
    (pc = "done" /\ TruncatedTail(log.private.data, 0) # -1)
        => OnlyTailCorrupt(TruncatedTail(log.private.data, 0))

\* C8, amended: the same, provided no byte of the cut payload is a frame
\* marker.
C8_TruncatedTailNoMarker ==
    LET t == TruncatedTail(log.private.data, 0) IN
    (/\ pc = "done"
     /\ t # -1
     /\ \A q \in (t + 2)..Len(log.private.data) : log.private.data[q] \notin Markers)
        => OnlyTailCorrupt(t)

\* a valid keyframe followed by a P frame cut short inside its payload
C8_Witness ==
    LET t == TruncatedTail(log.private.data, 0) IN
    /\ pc = "done"
    /\ t > 0
    /\ t + 1 < Len(log.private.data)
    /\ log.stats.totalCorruptFrames = 1
    /\ IsValidDelivered(FrameCalls[1], MarkerI)

\* ------------------------------------------------------------------------
\* C9
\* ------------------------------------------------------------------------

\* the values of the frames delivered so far do not decrease
DeliveredNonDecreasing ==
    \A i \in 1..Len(FrameCalls) : \A j \in (i + 1)..Len(FrameCalls) :
        (FrameCalls[i].frame # NullRecord /\ FrameCalls[j].frame # NullRecord)
        => /\ UnsignedLeq(FrameCalls[i].frame[FLIGHT_LOG_FIELD_INDEX_ITERATION],
                          FrameCalls[j].frame[FLIGHT_LOG_FIELD_INDEX_ITERATION])
           /\ UnsignedLeq(FrameCalls[i].frame[FLIGHT_LOG_FIELD_INDEX_TIME],
                          FrameCalls[j].frame[FLIGHT_LOG_FIELD_INDEX_TIME])

\* the offset up to which the frames must have been delivered: a frame is
\* due when the byte after it (or the end of the data) has been read, so the
\* frame parsed last is not due before the next pass of the loop
DueBefore ==
    CASE pc = "done" -> log.private.logEnd
      [] pc = "begin" /\ command = EOF -> log.private.logEnd
      [] pc = "begin" /\ command # EOF -> log.private.logPos - 1
      [] pc = "loop" /\ lastFrameType # NULL -> frameStart - 1
      [] OTHER -> 0

\* the frames whose markers are at `starts` and lie before DueBefore have
\* been delivered, once each, in order, with valid=true, and no other
DeliveredInOrder(starts) ==
    LET due == {i \in 1..Len(starts) : starts[i] < DueBefore} IN
    /\ Len(FrameCalls) = Cardinality(due)
    /\ \A i \in 1..Len(FrameCalls) :
          /\ IsValidDelivered(FrameCalls[i], log.private.data[starts[i] + 1])
          /\ FrameCalls[i].frameOffset = starts[i] + 1

\* C9 as stated: when the data is a sequence of well-formed I and P frames
\* whose iteration and time do not decrease, onFrameReady is invoked once
\* per frame, in order, with valid=true, each call made when the byte after
\* the frame (or the clean end of the data) is read and before the next
\* frame is parsed.
C9_EveryFrameValid ==
    (IsFrameSequence(log.private.data) /\ (raw \/ DeliveredNonDecreasing))
        => DeliveredInOrder(FrameStartsFrom(log.private.data, 0))

\* C9, amended: the same for a sequence that begins with an I frame.
C9_EveryFrameValidAfterKeyframe ==
    (/\ IsFrameSequence(log.private.data)
     /\ log.private.data[1] = MarkerI
     /\ raw \/ DeliveredNonDecreasing)
        => DeliveredInOrder(FrameStartsFrom(log.private.data, 0))

\* a session I P I P has been parsed to its end and delivered
C9_Witness ==
    /\ pc = "done"
    /\ ~raw
    /\ IsFrameSequence(log.private.data)
    /\ DeliveredNonDecreasing
    /\ Len(FrameCalls) = 4
    /\ IsValidDelivered(FrameCalls[1], MarkerI) /\ IsValidDelivered(FrameCalls[2], MarkerP)
    /\ IsValidDelivered(FrameCalls[3], MarkerI) /\ IsValidDelivered(FrameCalls[4], MarkerP)

\* ------------------------------------------------------------------------
\* C2
\* ------------------------------------------------------------------------

Without(data, p) == SubSeq(data, 1, p - 1) \o SubSeq(data, p + 1, Len(data))

\* the parse of the same session with `bytes` as its data section
Reference(bytes) ==
    flightLogParseFrom([MachineAfterHeader(bytes, "inc", raw)
                            EXCEPT !.log.private.frameDefs = log.private.frameDefs])

AllValid(m) ==
    \A i \in 1..Len(m.calls) : IsFrameCall(m.calls[i]) => m.calls[i].valid

\* byte p of the data is a garbage byte (no frame marker) between frame i - 1
\* and frame i of a stream that is, without it, a sequence of frames which are
\* all delivered as valid
GarbageBefore(p, i) ==
    LET clean == Without(log.private.data, p)
        starts == FrameStartsFrom(clean, 0)
    IN
    /\ log.private.data[p] \notin Markers
    /\ IsFrameSequence(clean)
    /\ i \in 2..Len(starts)
    /\ starts[i] = p - 1
    /\ AllValid(Reference(clean))

\* frame i of the clean stream is delivered with the values that it has in
\* the parse of the clean stream
SameValuesAfter(p, i) ==
    LET clean == Without(log.private.data, p)
        starts == FrameStartsFrom(clean, 0)
        expected == FrameCallsOf(Reference(clean).calls)[i]
    IN \E k \in 1..Len(FrameCalls) :
          /\ IsDelivered(FrameCalls[k], expected.frameType)
          /\ FrameCalls[k].frameOffset = expected.frameOffset + 1
          /\ FrameCalls[k].frame = expected.frame

\* the payload of frame i - 1 of the clean stream holds no frame marker
PayloadWithoutMarker(p, i) ==
    LET starts == FrameStartsFrom(Without(log.private.data, p), 0) IN
    \A q \in (starts[i - 1] + 2)..(p - 1) : log.private.data[q] \notin Markers

\* C2 as stated: a single garbage byte between two valid frames causes
\* exactly one corrupt-frame notification, and the frame after it is
\* delivered with the field values that it has without the garbage byte.
C2_OneNotificationSameValues ==
    pc = "done" =>
        \A p \in 1..Len(log.private.data) : \A i \in 1..MaxFrames :
            GarbageBefore(p, i)
                => Cardinality(CorruptCalls) = 1 /\ SameValuesAfter(p, i)

\* C2, amended: a garbage byte that is no frame marker, between two valid
\* frames, has the frame before it reported corrupt; when the payload of
\* that frame holds no frame marker this is the only corrupt notification,
\* a keyframe after the garbage byte is delivered with valid=true and the
\* field values that it has without the garbage byte, and a P frame after it
\* is delivered with valid=false.
C2_GarbageByte ==
    pc = "done" =>
        \A p \in 1..Len(log.private.data) : \A i \in 1..MaxFrames :
            GarbageBefore(p, i) =>
                LET starts == FrameStartsFrom(Without(log.private.data, p), 0) IN
                /\ \E c \in CorruptCalls :
                      /\ calls[c].frameOffset = starts[i - 1] + 1
                      /\ calls[c].frameType = log.private.data[starts[i - 1] + 1]
                      /\ calls[c].fieldCount = 0
                /\ PayloadWithoutMarker(p, i) =>
                      /\ Cardinality(CorruptCalls) = 1
                      /\ \E k \in 1..Len(FrameCalls) :
                            /\ FrameCalls[k].frameOffset = starts[i] + 2
                            /\ IsDelivered(FrameCalls[k], log.private.data[p + 1])
                            /\ IF log.private.data[p + 1] = MarkerI
                               THEN FrameCalls[k].valid /\ SameValuesAfter(p, i)
                               ELSE ~FrameCalls[k].valid

\* a garbage byte after a valid P frame and before a keyframe: the P frame
\* has been reported corrupt and the keyframe delivered
C2_Witness ==
    /\ pc = "done"
    /\ \E p \in 1..Len(log.private.data) : \E i \in 1..MaxFrames :
          /\ GarbageBefore(p, i)
          /\ PayloadWithoutMarker(p, i)
          /\ log.private.data[p + 1] = MarkerI
          /\ \E c \in CorruptCalls : calls[c].frameType = MarkerP

\* ------------------------------------------------------------------------
\* The state machine of a log file: flightLogCreate, then calls of
\* flightLogParse on the sessions listed
\* ------------------------------------------------------------------------

InitFiles(files, nullReads) ==
    \E data \in files, nullRead \in nullReads :
        \E m \in {MachineOfFile(data, nullRead)} :
            /\ raw = m.raw
            /\ log = m.log
            /\ calls = m.calls
            /\ parserState = m.parserState
            /\ lastFrameType = m.lastFrameType
            /\ frameStart = m.frameStart
            /\ prematureEof = m.prematureEof
            /\ command = m.command
            /\ pc = m.pc

Create == \E m \in {Cur} : AtCreate(m) /\ Set(CreateStep(m))

ParseBegin ==
    \E m \in {Cur} :
        /\ AtParseBegin(m)
        /\ \E logIndex \in -1..m.log.logCount, rawFlag \in BOOLEAN :
              Set(flightLogParseEntry(m, logIndex, rawFlag))

HeaderLine ==
    \E m \in {Cur} :
        /\ AtHeaderLine(m)
        /\ \E next \in NextByteOutcomes(ReadCommand(m).log) : Set(HeaderLineStep(m, next))

\* files made of pieces of the session-start marker
CreateChunks == {LOG_START_MARKER, <<MarkerH, Space, LineProduct>>, <<Newline>>, <<MarkerH>>}

InitCreate == InitFiles(Concatenations(CreateChunks, MaxFileChunks), {Unmapped})

\* flightLogParse on these files never gets past the header
NextCreate ==
    \/ Create
    \/ ParseBegin
    \/ HeaderLine
    \/ HeaderSkip
    \/ HeaderEof

SpecCreate == InitCreate /\ [][NextCreate]_vars

\* ------------------------------------------------------------------------
\* Files of whole sessions
\* ------------------------------------------------------------------------

\* the header lines of the sessions: the main frames as the firmware
\* defines them; a session with navigation frames, which leaves the
\* predictors and encodings of its main fields to the defaults; a session
\* whose keyframes name the predictors PREVIOUS and STRAIGHT_LINE
HeaderMain ==
    <<LineFieldIName, LineFieldIPredictor, LineFieldIEncoding,
      LineFieldPPredictor, LineFieldPEncoding>>

HeaderNavigation == <<LineFieldIName, LineFieldGName, LineFieldGPredictor, LineFieldHName>>

HeaderPrevious == <<LineFieldIName, LineFieldIPredictorPrevious, LineFieldIEncoding>>

Headers == {HeaderMain, HeaderNavigation, HeaderPrevious}

\* the frames of the sessions: a keyframe, a navigation frame and a
\* navigation-home frame, each of two one-byte fields
SessionChunks == {<<MarkerI, 1, 1>>, <<MarkerG, 2, 2>>, <<MarkerH, 2, 4>>}

RECURSIVE HeaderBytes(_)
HeaderBytes(lines) ==
    IF lines = <<>> THEN <<>> ELSE HeaderLineBytes(Head(lines)) \o HeaderBytes(Tail(lines))

Session(header, frames) == LOG_START_MARKER \o HeaderBytes(header) \o frames

\* files of one session of at most MaxSessionFrames frames, and files of
\* two sessions of at most one frame each
SessionFiles ==
    LET one == {Session(h, d) : h \in Headers,
                                d \in Concatenations(SessionChunks, MaxSessionFrames)}
        short == {Session(h, d) : h \in Headers, d \in Concatenations(SessionChunks, 1)}
    IN one \cup {a \o b : a \in short, b \in short}

\* what a read through a null pointer yields in the processes modelled
NullReads == {Unmapped, 0}

InitSessions == InitFiles(SessionFiles, NullReads)

NextSessions ==
    \/ Create
    \/ ParseBegin
    \/ HeaderLine
    \/ Next

SpecSessions == InitSessions /\ [][NextSessions]_vars

\* ------------------------------------------------------------------------
\* Vocabulary of the properties of a log file
\* ------------------------------------------------------------------------

IsParseCall(c) == c.cb = "flightLogParse"

\* the position in `calls` of the latest call of flightLogParse, 0 if none
LastParseAt ==
    LET at == {i \in 1..Len(calls) : IsParseCall(calls[i])}
    IN IF at = {} THEN 0 ELSE CHOOSE i \in at : \A j \in at : j <= i

\* a call of flightLogParse with a session index in range is under way or
\* has returned
InParse == LastParseAt > 0 /\ pc \in {"loop", "begin", "done", "failed", "exit", "fault"}
              /\ calls[LastParseAt].logIndex \in 0..(log.logCount - 1)

\* the session index of that call
ParsedIndex == calls[LastParseAt].logIndex

\* the callbacks issued by that call so far
ParseCalls == SubSeq(calls, LastParseAt + 1, Len(calls))

\* the log object exists
Created == pc \notin {"create", "nolog"}

\* the offsets of the file at which the session-start marker is written
MarkerOffsets(data) ==
    {p \in 0..Len(data) :
        /\ p + Len(LOG_START_MARKER) <= Len(data)
        /\ SubSeq(data, p + 1, p + Len(LOG_START_MARKER)) = LOG_START_MARKER}

\* ------------------------------------------------------------------------
\* C14
\* ------------------------------------------------------------------------

\* C14: flightLogCreate lists at most FLIGHT_LOG_MAX_LOGS_IN_FILE session
\* starts, strictly increasing, each at an occurrence of the session-start
\* marker, with no occurrence left out before the maximum is reached, and
\* followed by the sentinel logBegin[logCount] = end of the input; the
\* region of session k that flightLogParse reads is from logBegin[k] up to
\* logBegin[k + 1].
C14_SessionList ==
    Created =>
        /\ log.logCount \in 0..FLIGHT_LOG_MAX_LOGS_IN_FILE
        /\ Len(log.logBegin) = log.logCount + 1
        /\ \A k \in 1..log.logCount :
              /\ log.logBegin[k] \in MarkerOffsets(log.private.data)
              /\ log.logBegin[k] < log.logBegin[k + 1]
        /\ \A p \in MarkerOffsets(log.private.data) :
              \/ \E k \in 1..log.logCount : log.logBegin[k] = p
              \/ /\ log.logCount = FLIGHT_LOG_MAX_LOGS_IN_FILE
                 /\ p > log.logBegin[log.logCount]
        /\ log.logBegin[log.logCount + 1] = Len(log.private.data)
        /\ InParse =>
              /\ log.private.logStart = log.logBegin[ParsedIndex + 1]
              /\ log.private.logEnd = log.logBegin[ParsedIndex + 2]

\* the second session of a file that has more occurrences of the marker
\* than flightLogCreate lists is being parsed
C14_Witness ==
    /\ InParse /\ pc = "loop" /\ ParsedIndex = 1
    /\ log.logCount = FLIGHT_LOG_MAX_LOGS_IN_FILE
    /\ \E p \in MarkerOffsets(log.private.data) : p > log.logBegin[log.logCount]
    /\ log.private.logPos > log.private.logStart

\* ------------------------------------------------------------------------
\* C11
\* ------------------------------------------------------------------------

\* a well-formed H frame was completed among the first n callbacks of the
\* current parse
HomeCompletedWithin(n) ==
    \E j \in 1..n : IsDelivered(ParseCalls[j], MarkerH)

\* C11: within one parse a G frame is delivered with valid=true exactly when
\* a well-formed H frame was completed earlier in that parse; the home-valid
\* flag is false when a parse starts and, once an H frame is completed,
\* stays set until the parse ends.
C11_NavigationValidAfterHome ==
    InParse =>
        /\ \A i \in 1..Len(ParseCalls) :
              IsDelivered(ParseCalls[i], MarkerG)
                 => (ParseCalls[i].valid <=> HomeCompletedWithin(i - 1))
        /\ log.private.gpsHomeIsValid <=> HomeCompletedWithin(Len(ParseCalls))

\* a parse that delivered a G frame as invalid, then an H frame, then a G
\* frame as valid
C11_Witness ==
    /\ InParse /\ pc = "done"
    /\ \E i \in 1..Len(ParseCalls) : \E j \in (i + 1)..Len(ParseCalls) :
       \E k \in (j + 1)..Len(ParseCalls) :
          /\ IsDelivered(ParseCalls[i], MarkerG) /\ ~ParseCalls[i].valid
          /\ IsDelivered(ParseCalls[j], MarkerH)
          /\ IsValidDelivered(ParseCalls[k], MarkerG)

\* ------------------------------------------------------------------------
\* C12
\* ------------------------------------------------------------------------

\* the value that a one-byte signed variable-byte residual encodes
SignedResidual(byte) == IF byte % 2 = 0 THEN byte \div 2 ELSE -((byte + 1) \div 2)

\* the residuals of the frame that the callback c reports, whose fields are
\* one-byte signed residuals; the offset reported is that of the first of
\* them, counted from 0
FrameResiduals(c) ==
    [k \in 1..c.fieldCount |-> SignedResidual(log.private.data[c.frameOffset + k])]

\* C12: while the navigation-home-valid flag is unset (no H frame completed
\* in the current parse), a G field with the predictor HOME_COORD or
\* HOME_COORD_1 is decoded without reading or adding the published home
\* slot: the G frame delivered carries the residuals alone.
C12_HomeNotConsumedWhileUnset ==
    InParse =>
        \A i \in 1..Len(ParseCalls) :
            (IsDelivered(ParseCalls[i], MarkerG) /\ ~HomeCompletedWithin(i - 1))
               => ParseCalls[i].frame = FrameResiduals(ParseCalls[i])

\* ------------------------------------------------------------------------
\* C13
\* ------------------------------------------------------------------------

\* flightLogParse has just been entered with a session index in range
AtParseEntry ==
    /\ InParse /\ pc = "loop" /\ parserState = PARSER_STATE_HEADER
    /\ ParseCalls = <<>>
    /\ log.private.logPos = log.private.logStart

\* the decoder state that the claim C13 describes at the entry of a parse
DecoderStateIsReset ==
    /\ log.stats = ZeroStats
    /\ log.private.frameDefs = ZeroFrameDefs
    /\ log.mainFieldCount = 0 /\ log.gpsFieldCount = 0 /\ log.gpsHomeFieldCount = 0
    /\ log.private.motor0Index = -1
    /\ log.private.home0Index = -1
    /\ log.private.home1Index = -1
    /\ log.private.lastEvent.event = -1
    /\ log.private.mainHistory = <<1, NULL, NULL>>
    /\ ~log.private.mainStreamIsValid
    /\ log.private.gpsHomeHistory[2] = ZeroRecord
    /\ ~log.private.gpsHomeIsValid
    /\ log.minthrottle = 1150 /\ log.maxthrottle = 1850
    /\ log.vbatref = 4095 /\ log.vbatscale = 110
    /\ log.vbatmincellvoltage = 33 /\ log.vbatwarningcellvoltage = 35
    /\ log.vbatmaxcellvoltage = 43
    /\ log.frameIntervalI = 32
    /\ log.frameIntervalPNum = 1 /\ log.frameIntervalPDenom = 1

\* the machine m run until flightLogParse returns; the files of whole
\* sessions have a byte behind every 'H' that is read as a header line
RECURSIVE RunParse(_)
RunParse(m) ==
    IF Returned(m) THEN m
    ELSE IF AtHeaderLine(m)
    THEN RunParse(HeaderLineStep(m, CHOOSE next \in NextByteOutcomes(ReadCommand(m).log) : TRUE))
    ELSE RunParse(flightLogParseStep(m))

\* the current call of flightLogParse made on a log object that
\* flightLogCreate has just made of the same file
FirstParse ==
    RunParse(flightLogParseEntry(
                CreateStep(MachineOfFile(log.private.data, log.private.nullRead)),
                ParsedIndex, raw))

\* C13: at the start of every flightLogParse, whatever was parsed before on
\* the same log object, the decoder state is reset (statistics, frame
\* definitions, field counts, named-field indices, event slot, history ring,
\* published navigation-home, calibration), so that the callbacks and the
\* statistics of a parse do not depend on the parses made earlier.
C13_ParseStartsFromResetState ==
    /\ AtParseEntry => DecoderStateIsReset
    /\ (InParse /\ Returned(Cur))
          => /\ ParseCalls = Tail(FirstParse.calls)
             /\ pc = FirstParse.pc
             /\ log.stats = FirstParse.log.stats

\* ------------------------------------------------------------------------
\* C15
\* ------------------------------------------------------------------------

\* the loop is about to report the previous frame through onFrameReady
AboutToReportFrame ==
    /\ InParse
    /\ AtDataFrameCompleted(Cur) \/ AtDataFrameCorrupt(Cur)
    /\ lastFrameType # MarkerE

\* C15: the frame byte offset passed to onFrameReady is measured from the
\* start of the session being parsed, for every session index, also of a
\* session that does not start at byte 0 of the file.
C15_OffsetFromSessionStart ==
    AboutToReportFrame =>
        LET reported == NextState.calls[Len(NextState.calls)]
        IN /\ IsFrameCall(reported)
           /\ reported.frameOffset = frameStart - log.private.logStart

\* ------------------------------------------------------------------------
\* C16
\* ------------------------------------------------------------------------

\* the number of fields of a frame of the kind frameType
FieldCountOf(frameType) ==
    CASE frameType = MarkerG -> log.gpsFieldCount
      [] frameType = MarkerH -> log.gpsHomeFieldCount
      [] OTHER -> log.mainFieldCount

\* The encoded residuals of a frame of the kind frameType read from the
\* cursor of lg on, field by field from the field i: the values, and the
\* offset behind the last of them. A field in `unencoded` has no residual
\* in the data and counts as 0.
RECURSIVE ResidualsFrom(_, _, _, _, _)
ResidualsFrom(lg, frameType, unencoded, i, acc) ==
    IF i > FieldCountOf(frameType)
    THEN [values |-> acc, end |-> lg.private.logPos]
    ELSE LET encoding == lg.private.frameDefs[frameType].encoding[i]
             r == CASE i \in unencoded -> [log |-> lg, v |-> 0]
                    [] encoding = FLIGHT_LOG_FIELD_ENCODING_SIGNED_VB -> readSignedVB(lg)
                    [] encoding = FLIGHT_LOG_FIELD_ENCODING_UNSIGNED_VB -> readUnsignedVB(lg)
                    [] OTHER -> [log |-> lg, v |-> 0]
         IN ResidualsFrom(r.log, frameType, unencoded, i + 1, Append(acc, r.v))

\* the fields of the frame kind whose predictor is INCREMENT
IncrementFields(frameType) ==
    {i \in 1..FieldCountOf(frameType) :
        log.private.frameDefs[frameType].predictor[i] = FLIGHT_LOG_FIELD_PREDICTOR_INC}

\* the residuals of the frame that the callback c reports
EncodedResiduals(c, unencoded) ==
    ResidualsFrom([log EXCEPT !.private.logPos = c.frameOffset + log.private.logData],
                  c.frameType, unencoded, 1, <<>>)

\* the frame that c reports spans its residuals, and the byte read behind
\* them if there was one
SpansResiduals(c, unencoded) ==
    c.frameSize \in {EncodedResiduals(c, unencoded).end - c.frameOffset,
                     EncodedResiduals(c, unencoded).end - c.frameOffset + 1}

HistoryPredictors ==
    {FLIGHT_LOG_FIELD_PREDICTOR_PREVIOUS, FLIGHT_LOG_FIELD_PREDICTOR_STRAIGHT_LINE,
     FLIGHT_LOG_FIELD_PREDICTOR_AVERAGE_2}

\* C17: when a keyframe is parsed, every field whose predictor is PREVIOUS,
\* STRAIGHT_LINE or AVERAGE_2 decodes to its residual alone, whether or not
\* a previous record exists in the history ring, and the parse completes
\* without a fault.
C17_KeyframeResidualsStandAlone ==
    (InParse /\ ~raw) =>
        /\ pc # "fault"
        /\ \A i \in 1..Len(ParseCalls) :
              IsDelivered(ParseCalls[i], MarkerI)
                 => \A k \in 1..ParseCalls[i].fieldCount :
                       log.private.frameDefs[MarkerI].predictor[k] \in HistoryPredictors
                          => ParseCalls[i].frame[k]
                                = EncodedResiduals(ParseCalls[i], {}).values[k]

\* ------------------------------------------------------------------------
\* C18
\* ------------------------------------------------------------------------

\* the main frames delivered with valid=true so far
ValidMainFrames ==
    {j \in 1..Len(FrameCalls) :
        IsValidDelivered(FrameCalls[j], MarkerI) \/ IsValidDelivered(FrameCalls[j], MarkerP)}

\* a <= b as values of the main field i, signed or unsigned as the header
\* declares the field
FieldLeq(i, a, b) == IF log.mainFieldSigned[i] # 0 THEN a <= b ELSE UnsignedLeq(a, b)

\* C18: for every main field the recorded minimum and maximum are the
\* minimum and maximum (signed or unsigned, as the field is declared) over
\* exactly the main frames delivered with valid=true: the first such frame
\* sets both to its own values, and frames delivered as invalid leave them
\* alone.
C18_StatisticsOverValidFrames ==
    ValidMainFrames # {} =>
        \A i \in 1..log.mainFieldCount :
            LET min == log.stats.field[i].min[2]
                max == log.stats.field[i].max[2]
            IN /\ \E j \in ValidMainFrames : FrameCalls[j].frame[i] = min
               /\ \E j \in ValidMainFrames : FrameCalls[j].frame[i] = max
               /\ \A j \in ValidMainFrames :
                     /\ FieldLeq(i, min, FrameCalls[j].frame[i])
                     /\ FieldLeq(i, FrameCalls[j].frame[i], max)

\* ------------------------------------------------------------------------
\* The state machine of the battery cell estimate
\* ------------------------------------------------------------------------

\* the calibrations explored: the defaults of flightLogParse (4095, 110, 43)
\* and values around them
ReferenceReadings == {0, 512, 1024, 2048, 3072, 4095}
Scales == {0, 55, 110, 220}
CellVoltages == {0, 1, 36, 43, 52, 60}

InitCells ==
    \E vbatref \in ReferenceReadings, vbatscale \in Scales, vbatmaxcellvoltage \in CellVoltages :
        \E m \in {MachineWithCalibration(vbatref, vbatscale, vbatmaxcellvoltage)} :
            /\ raw = m.raw
            /\ log = m.log
            /\ calls = m.calls
            /\ parserState = m.parserState
            /\ lastFrameType = m.lastFrameType
            /\ frameStart = m.frameStart
            /\ prematureEof = m.prematureEof
            /\ command = m.command
            /\ pc = m.pc

EstimateNumCells == \E m \in {Cur} : AtEstimateNumCells(m) /\ Set(EstimateNumCellsStep(m))

NextCells == EstimateNumCells

SpecCells == InitCells /\ [][NextCells]_vars

\* ------------------------------------------------------------------------
\* C19
\* ------------------------------------------------------------------------

\* the reference voltage in tenths of a volt
ReferenceDecivolts == ((log.vbatref * 330 * log.vbatscale) \div 4095) \div 100

\* the cell counts between 1 and 7 that the reference voltage stays below
EnoughCells == {n \in 1..7 : ReferenceDecivolts < n * log.vbatmaxcellvoltage}

\* C19: flightLogEstimateNumCells returns the smallest n in [1,7] with
\* flightLogVbatToMillivolts(vbatref) / 100 < n * vbatmaxcellvoltage, and 7
\* when there is no such n; the result is always within [1,7], with the
\* default calibration too.
C19_CellCountWithinSeven ==
    pc = "estimated" =>
        LET result == calls[Len(calls)].result IN
        /\ result \in 1..7
        /\ IF EnoughCells = {} THEN result = 7
           ELSE result \in EnoughCells /\ \A n \in EnoughCells : result <= n

\* ------------------------------------------------------------------------
\* C20
\* ------------------------------------------------------------------------

\* the offset of the first byte from p on, below end, that matches a frame
\* marker and does not begin a header line ('H' followed by a space; the
\* line ends with its newline); end if there is none
RECURSIVE FirstFrameMarker(_, _, _)
FirstFrameMarker(data, p, end) ==
    IF p >= end THEN end
    ELSE IF data[p + 1] = MarkerH /\ p + 1 < end /\ data[p + 2] = Space
    THEN LET nl == {q \in (p + 2)..(end - 1) : data[q + 1] = Newline}
         IN IF nl = {} THEN end
            ELSE FirstFrameMarker(data, (CHOOSE q \in nl : \A r \in nl : q <= r) + 1, end)
    ELSE IF getFrameType(data[p + 1]) # NULL THEN p
    ELSE FirstFrameMarker(data, p + 1, end)

\* the callbacks of the parse that are onMetadataReady
MetadataCalls == {i \in 1..Len(ParseCalls) : ParseCalls[i].cb = "onMetadataReady"}

\* the header has just been finalised: nothing has been read since
JustFinalized ==
    /\ InParse /\ pc = "loop" /\ parserState = PARSER_STATE_DATA
    /\ lastFrameType = NULL
    /\ Len(ParseCalls) > 0 /\ ParseCalls[Len(ParseCalls)].cb = "onMetadataReady"

\* C20: in every parse that returns true onMetadataReady is invoked exactly
\* once, at the transition from HEADER to DATA that the first byte matching
\* a frame marker triggers, and before any onFrameReady or onEvent callback;
\* the parser never goes back from DATA to HEADER, and the triggering marker
\* is unread, so that it is parsed as the first frame.
C20_MetadataOnceAtFirstMarker ==
    InParse =>
        /\ pc = "done" => Cardinality(MetadataCalls) = 1
        /\ Len(ParseCalls) > 0 => ParseCalls[1].cb = "onMetadataReady"
        /\ parserState = PARSER_STATE_DATA <=> MetadataCalls # {}
        /\ JustFinalized =>
              /\ log.private.logPos =
                    FirstFrameMarker(log.private.data, log.private.logStart, log.private.logEnd)
              /\ Peek(Cur) = command
              /\ getFrameType(command) # NULL

\* ------------------------------------------------------------------------
\* The state machine of a stream of variable-byte integers
\* ------------------------------------------------------------------------

\* bytes with and without the continuation bit, with small and large groups
VarintBytes == {0, 1, 127, 128, 255}

RECURSIVE StreamsUpTo(_)
StreamsUpTo(n) ==
    IF n = 0 THEN {<<>>}
    ELSE LET shorter == StreamsUpTo(n - 1) IN
         shorter \cup {Append(s, b) : s \in {t \in shorter : Len(t) = n - 1}, b \in VarintBytes}

InitVarint ==
    \E bytes \in StreamsUpTo(MaxVarintBytes) :
        \E m \in {MachineOfStream(bytes)} :
            /\ raw = m.raw
            /\ log = m.log
            /\ calls = m.calls
            /\ parserState = m.parserState
            /\ lastFrameType = m.lastFrameType
            /\ frameStart = m.frameStart
            /\ prematureEof = m.prematureEof
            /\ command = m.command
            /\ pc = m.pc

ReadUnsignedVB == \E m \in {Cur} : AtReadUnsignedVB(m) /\ Set(ReadUnsignedVBStep(m))

NextVarint == ReadUnsignedVB

SpecVarint == InitVarint /\ [][NextVarint]_vars

\* ------------------------------------------------------------------------
\* C21
\* ------------------------------------------------------------------------

\* the bytes of the stream from offset p on
StreamFrom(p) == SubSeq(log.private.data, p + 1, Len(log.private.data))

\* the number of bytes at the head of s that carry the continuation bit
RECURSIVE ContinuationRun(_)
ContinuationRun(s) ==
    IF s = <<>> \/ s[1] < 128 THEN 0 ELSE 1 + ContinuationRun(Tail(s))

\* the 7-bit group of byte k of s
Group(s, k) == s[k] % 128

\* the groups of the first n bytes of s, n <= 4, least significant first
RECURSIVE LowGroups(_, _)
LowGroups(s, n) == IF n = 0 THEN 0 ELSE LowGroups(s, n - 1) + Group(s, n) * (128 ^ (n - 1))

\* the value of the groups of the first n bytes of s, n <= 5, modulo 2^32,
\* as the int32_t with those bits: of the fifth group only the low four bits
\* are below 2^32
GroupsValue(s, n) ==
    IF n <= 4 THEN LowGroups(s, n)
    ELSE LET top == Group(s, 5) % 16
         IN (IF top >= 8 THEN top - 16 ELSE top) * 268435456 + LowGroups(s, 4)

\* C21: a varint whose first five bytes all carry the continuation bit
\* decodes to 0 and the decoding goes on after those five bytes; a varint
\* that meets the end of the input before its final byte decodes to 0; a
\* varint of at most five bytes decodes to the value of its 7-bit groups,
\* least significant first, modulo 2^32.
C21_VarintDecoding ==
    \A j \in 1..Len(calls) :
        LET s == StreamFrom(calls[j].from)
            run == ContinuationRun(s)
            after == IF j < Len(calls) THEN calls[j + 1].from ELSE log.private.logPos
        IN IF run >= 5 THEN calls[j].result = 0 /\ after = calls[j].from + 5
           ELSE IF run = Len(s) THEN calls[j].result = 0 /\ after = log.private.logEnd
           ELSE /\ calls[j].result = GroupsValue(s, run + 1)
                /\ after = calls[j].from + run + 1

\* an overlong varint has been decoded to 0 and the byte after its five
\* bytes has been decoded as a varint of its own
C21_Witness ==
    \E j \in 1..Len(calls) :
        /\ ContinuationRun(StreamFrom(calls[j].from)) >= 5
        /\ calls[j].result = 0
        /\ j < Len(calls)
        /\ calls[j + 1].result # 0

\* ------------------------------------------------------------------------
\* C22
\* ------------------------------------------------------------------------

\* the loop is about to complete a well-formed main frame
AboutToCompleteMain ==
    AtDataFrameCompleted(Cur) /\ lastFrameType \in {MarkerI, MarkerP}

\* the ring slot after `slot`, the third one followed by the first
SlotAfter(slot) == (slot % 3) + 1

\* C22: when a keyframe is accepted, previous and previous-previous both
\* come to refer to its record; when a P frame is completed on a valid
\* stream, previous-previous becomes the former previous and previous the
\* record just decoded; in both cases current moves to the next of the three
\* ring slots, the third followed by the first. When the frame is delivered
\* as invalid nothing is rotated: current stays, and no reference comes to
\* point to the record just decoded (an invalid P frame leaves the references
\* as they are, a rejected keyframe clears previous and previous-previous).
C22_RingRotation ==
    AboutToCompleteMain =>
        LET before == log.private.mainHistory
            after == NextState.log.private.mainHistory
            delivered == NextState.calls[Len(NextState.calls)]
            ringAfter == NextState.log.private.blackboxHistoryRing
        IN /\ IsFrameCall(delivered)
           /\ (delivered.valid /\ lastFrameType = MarkerI) =>
                 /\ after = <<SlotAfter(before[1]), before[1], before[1]>>
                 /\ Fields(ringAfter[after[2]], log.mainFieldCount) = delivered.frame
           /\ (delivered.valid /\ lastFrameType = MarkerP) =>
                 /\ after = <<SlotAfter(before[1]), before[1], before[2]>>
                 /\ Fields(ringAfter[after[2]], log.mainFieldCount) = delivered.frame
           /\ (~delivered.valid /\ lastFrameType = MarkerP) => after = before
           /\ (~delivered.valid /\ lastFrameType = MarkerI) => after = <<before[1], NULL, NULL>>

\* a P frame is completed on a valid stream with current in the third slot
\* and previous-previous distinct from previous: the rotation wraps
C22_Witness ==
    /\ AboutToCompleteMain /\ lastFrameType = MarkerP
    /\ log.private.mainStreamIsValid
    /\ log.private.mainHistory = <<3, 2, 1>>
    /\ NextState.log.private.mainHistory = <<1, 3, 2>>

\* ------------------------------------------------------------------------
\* Sessions logged at a reduced rate
\* ------------------------------------------------------------------------

\* the longest session, in chunks
MaxSampledFrames == 4

\* keyframes with the values (0,0) and (1,1), a P frame with the residual 0
\* and a byte that is no marker
SampledChunks == {<<MarkerI, 0, 0>>, <<MarkerI, 1, 1>>, <<MarkerP, 0>>, <<128>>}

\* the keyframe intervals and the P intervals <<num, denom>> of the headers
IntervalsI == {1, 4, 32}
IntervalsP == {<<1, 1>>, <<1, 2>>, <<1, 4>>, <<2, 3>>}

InitSampled ==
    \E bytes \in Concatenations(SampledChunks, MaxSampledFrames), i \in IntervalsI, p \in IntervalsP :
        \E m \in {MachineSampled(bytes, i, p[1], p[2])} :
            /\ raw = m.raw
            /\ log = m.log
            /\ calls = m.calls
            /\ parserState = m.parserState
            /\ lastFrameType = m.lastFrameType
            /\ frameStart = m.frameStart
            /\ prematureEof = m.prematureEof
            /\ command = m.command
            /\ pc = m.pc

SpecSampled == InitSampled /\ [][Next]_vars

\* ------------------------------------------------------------------------
\* C23
\* ------------------------------------------------------------------------

\* the iteration with index x is one that the logging rate keeps
KeptIteration(x) ==
    (((x % log.frameIntervalI) + log.frameIntervalPNum - 1) % log.frameIntervalPDenom)
        < log.frameIntervalPNum

\* the number of consecutive iterations after n that the logging rate leaves out
SkippedAfter(n) ==
    CHOOSE k \in 0..log.frameIntervalI :
        /\ KeptIteration(n + 1 + k)
        /\ \A j \in 0..(k - 1) : ~KeptIteration(n + 1 + j)

\* the marker P has been read and its frame is about to be parsed
AboutToParseP == AtDataParseFrame(Cur) /\ command = MarkerP

\* the field positions of a P frame with the predictor INCREMENT
IncrementPositions ==
    {i \in 1..log.mainFieldCount :
        log.private.frameDefs[MarkerP].predictor[i] = FLIGHT_LOG_FIELD_PREDICTOR_INC}

\* the bytes that the varint at the cursor takes up
VarintLength ==
    LET rest == StreamFrom(log.private.logPos)
        run == ContinuationRun(rest)
    IN IF run >= 5 THEN 5 ELSE IF run = Len(rest) THEN run ELSE run + 1

\* C23: a field with the predictor INCREMENT takes no byte of the input and
\* is decoded as n + k + 1, n the value of the previous record at the same
\* position and k the number of consecutive iterations after the previous
\* record's iteration that fail the should-have-frame test; it is decoded as
\* k + 1 = 1 when there is no previous record.
C23_IncrementField ==
    (AboutToParseP /\ IncrementPositions # {}) =>
        LET previous == Deref(log, log.private.mainHistory[2])
            decoded == NextState.log.private.blackboxHistoryRing[log.private.mainHistory[1]]
            k == IF previous = NullRecord THEN 0
                 ELSE SkippedAfter(previous[FLIGHT_LOG_FIELD_INDEX_ITERATION])
        IN /\ \A i \in IncrementPositions :
                 decoded[i] = (IF previous = NullRecord THEN 0 ELSE previous[i]) + k + 1
           \* the only bytes taken are those of the other field's varint
           /\ NextState.log.private.logPos = log.private.logPos + VarintLength

\* a P frame is parsed after a record with two iterations left out after it
C23_Witness ==
    /\ AboutToParseP
    /\ Deref(log, log.private.mainHistory[2]) # NullRecord
    /\ SkippedAfter(Deref(log, log.private.mainHistory[2])[FLIGHT_LOG_FIELD_INDEX_ITERATION]) = 2
    /\ NextState.log.private.blackboxHistoryRing[log.private.mainHistory[1]][1]
          = Deref(log, log.private.mainHistory[2])[1] + 3

\* ------------------------------------------------------------------------
\* The state machine of the predictor AVERAGE_2
\* ------------------------------------------------------------------------

\* values of a field at and next to the ends of the 32-bit range
FieldValues == {0, 1, 2, 3, -1, -2, -3, 1073741824, -1073741824, INT32_MAX, INT32_MAX - 1,
                INT32_MIN, INT32_MIN + 1}

Residuals == {0, 1, -1, INT32_MAX, INT32_MIN}

InitAverage ==
    \E signed \in {0, 1}, p \in FieldValues, pp \in FieldValues :
        \E m \in {MachineWithHistory(signed, p, pp)} :
            /\ raw = m.raw
            /\ log = m.log
            /\ calls = m.calls
            /\ parserState = m.parserState
            /\ lastFrameType = m.lastFrameType
            /\ frameStart = m.frameStart
            /\ prematureEof = m.prematureEof
            /\ command = m.command
            /\ pc = m.pc

ApplyAverage ==
    \E m \in {Cur}, value \in Residuals : AtApplyAverage(m) /\ Set(ApplyAverageStep(m, value))

NextAverage == ApplyAverage

SpecAverage == InitAverage /\ [][NextAverage]_vars

\* ------------------------------------------------------------------------
\* C24
\* ------------------------------------------------------------------------

\* the int32_t with the bits of a + b, a and b two int32_t
WrapAdd(a, b) ==
    IF (a >= 0) # (b >= 0) THEN a + b
    ELSE IF a >= 0
    THEN IF a > INT32_MAX - b THEN (a + INT32_MIN) + (b + INT32_MIN) ELSE a + b
    ELSE IF a < INT32_MIN - b THEN (a - INT32_MIN) + (b - INT32_MIN) ELSE a + b

\* the previous and the previous-previous value of the first field
PreviousValue == log.private.blackboxHistoryRing[log.private.mainHistory[2]][1]
PreviousValue2 == log.private.blackboxHistoryRing[log.private.mainHistory[3]][1]

\* floor((a + b) / 2) of two int32_t, which is an int32_t
FloorMean(a, b) == (a \div 2) + (b \div 2) + (((a % 2) + (b % 2)) \div 2)

\* the mean of a and b as signed integers, rounded towards zero as the
\* division of C rounds
SignedMean(a, b) ==
    IF FloorMean(a, b) < 0 /\ ((a % 2) + (b % 2)) = 1
    THEN FloorMean(a, b) + 1
    ELSE FloorMean(a, b)

\* half of the unsigned integer with the bits of the int32_t a
UnsignedHalf(a) == IF a >= 0 THEN a \div 2 ELSE (a \div 2) - INT32_MIN

\* the int32_t with the bits of the mean of a and b as unsigned integers
UnsignedMean(a, b) ==
    WrapAdd(WrapAdd(UnsignedHalf(a), UnsignedHalf(b)), ((a % 2) + (b % 2)) \div 2)

\* half of the int32_t s, rounded towards zero
SignedHalf(s) == (s \div 2) + (IF s < 0 /\ s % 2 = 1 THEN 1 ELSE 0)

\* a + b, two signed 32-bit integers, is a signed 32-bit integer
SignedSumFits(a, b) == ((a >= 0) # (b >= 0)) \/ ((WrapAdd(a, b) >= 0) = (a >= 0))

\* the sum of the unsigned 32-bit integers with the bits of a and b is below 2^32
UnsignedSumFits(a, b) ==
    /\ ~(a < 0 /\ b < 0)
    /\ ((a < 0) # (b < 0)) => WrapAdd(a, b) < 0

\* the field is declared signed
FirstFieldSigned == log.mainFieldSigned[1] # 0

\* C24 as stated: for AVERAGE_2 the amount added to the residual is the mean
\* of the two previous values, as signed integers when the field is signed
\* and as unsigned integers otherwise, for every pair of values, also those
\* whose sum does not fit in 32 bits; the addition to the residual wraps.
C24_AverageIsMean ==
    pc = "predicted" =>
        LET c == calls[Len(calls)]
            mean == IF FirstFieldSigned THEN SignedMean(PreviousValue, PreviousValue2)
                    ELSE UnsignedMean(PreviousValue, PreviousValue2)
        IN c.result = WrapAdd(c.value, mean)

\* C24, amended: the amount added is half of the sum of the two previous
\* values taken modulo 2^32: that sum read as a signed 32-bit integer and
\* halved towards zero when the field is signed, read as an unsigned 32-bit
\* integer and halved otherwise. It is the mean of the two values whenever
\* their sum (signed or unsigned, as the field is) fits in 32 bits. The
\* addition to the residual wraps modulo 2^32.
C24_AverageOfWrappedSum ==
    pc = "predicted" =>
        LET c == calls[Len(calls)]
            sum == WrapAdd(PreviousValue, PreviousValue2)
            half == IF FirstFieldSigned THEN SignedHalf(sum) ELSE UnsignedHalf(sum)
            mean == IF FirstFieldSigned THEN SignedMean(PreviousValue, PreviousValue2)
                    ELSE UnsignedMean(PreviousValue, PreviousValue2)
            fits == IF FirstFieldSigned
                    THEN SignedSumFits(PreviousValue, PreviousValue2)
                    ELSE UnsignedSumFits(PreviousValue, PreviousValue2)
        IN /\ c.result = WrapAdd(c.value, half)
           /\ fits => half = mean

\* a signed field whose two previous values have a negative odd sum that
\* fits, and the addition to the residual has wrapped
C24_Witness ==
    /\ pc = "predicted"
    /\ FirstFieldSigned
    /\ PreviousValue = -1 /\ PreviousValue2 = -2
    /\ calls[Len(calls)].value = INT32_MIN
    /\ calls[Len(calls)].result = INT32_MAX

\* ------------------------------------------------------------------------
\* Sessions of one frame with grouped encodings
\* ------------------------------------------------------------------------

\* the largest number of fields of the frame, and of bytes of the session
MaxGroupedFields == 3
MaxGroupedBytes == 3

\* the encodings of the fields
GroupedFieldEncodings == GroupedEncodings \cup {FLIGHT_LOG_FIELD_ENCODING_UNSIGNED_VB}

\* the encoding vectors of n fields
RECURSIVE EncodingVectors(_)
EncodingVectors(n) ==
    IF n = 0 THEN {<<>>}
    ELSE {Append(e, t) : e \in EncodingVectors(n - 1), t \in GroupedFieldEncodings}

\* payload bytes: as the lead byte of TAG2_3S32 three 2-bit values 1 (21) and
\* 4-bit values (85); as the selector of TAG8_4S16 a 4-bit lane (21, 85); as
\* the header of TAG8_8SVB the first three values present (7)
GroupedPayloadBytes == {7, 21, 85}

InitGroups ==
    \E frameType \in {MarkerI, MarkerG}, fieldCount \in 1..MaxGroupedFields, dataVersion \in {1, 2} :
        \E encoding \in EncodingVectors(fieldCount),
           bytes \in Strings(GroupedPayloadBytes \cup {frameType}, MaxGroupedBytes) :
            \E m \in {MachineGrouped(bytes, frameType, fieldCount, encoding, dataVersion)} :
                /\ raw = m.raw
                /\ log = m.log
                /\ calls = m.calls
                /\ parserState = m.parserState
                /\ lastFrameType = m.lastFrameType
                /\ frameStart = m.frameStart
                /\ prematureEof = m.prematureEof
                /\ command = m.command
                /\ pc = m.pc

SpecGroups == InitGroups /\ [][Next]_vars

\* ------------------------------------------------------------------------
\* C25
\* ------------------------------------------------------------------------

\* the natural size of the group of a grouped encoding
GroupCap(tag) ==
    CASE tag = FLIGHT_LOG_FIELD_ENCODING_TAG8_4S16 -> 4
      [] tag = FLIGHT_LOG_FIELD_ENCODING_TAG2_3S32 -> 3
      [] OTHER -> 8

\* the encodings of the frames of the kind frameType
EncodingsOf(frameType) == log.private.frameDefs[frameType].encoding

\* the run of adjacent field positions from i on that share the encoding of
\* position i, capped at the natural size of its group and ending with the
\* last field of the frame kind
RunFrom(frameType, i) ==
    LET tag == EncodingsOf(frameType)[i]
        last == {p \in i..FieldCountOf(frameType) :
                    /\ p - i < GroupCap(tag)
                    /\ \A q \in i..p : EncodingsOf(frameType)[q] = tag}
    IN Cardinality(last)

\* the first field position of the frame kind with a grouped encoding, 0 if
\* there is none: the positions before it take one field each
FirstGrouped(frameType) ==
    LET at == {i \in 1..FieldCountOf(frameType) : EncodingsOf(frameType)[i] \in GroupedEncodings}
    IN IF at = {} THEN 0 ELSE CHOOSE i \in at : \A j \in at : i <= j

\* the record that a frame of the kind frameType is decoded into, in machine m
DecodedInto(m, frameType) ==
    CASE frameType = MarkerG -> m.log.private.lastGPS
      [] frameType = MarkerH -> m.log.private.gpsHomeHistory[1]
      [] OTHER -> m.log.private.blackboxHistoryRing[m.log.private.mainHistory[1]]

\* a marker has been read and its frame, with a grouped encoding, is about
\* to be parsed
AboutToParseGrouped ==
    /\ AtDataParseFrame(Cur)
    /\ command \in {MarkerI, MarkerP, MarkerG, MarkerH}
    /\ FirstGrouped(command) > 0

\* C25: the parse of a frame with the grouped encodings TAG8_4S16, TAG2_3S32
\* and TAG8_8SVB takes, at a group, the run of adjacent field positions that
\* share the tag, capped at 4, 3 or 8 and ending with the last field of the
\* frame's kind, and advances the field index by the size of that run; no
\* field position at or beyond the field count of the frame is written.
C25_GroupIsRunWithinFrame ==
    AboutToParseGrouped =>
        /\ groupCount(log, command, FirstGrouped(command)) = RunFrom(command, FirstGrouped(command))
        /\ \A p \in (FieldCountOf(command) + 1)..FLIGHT_LOG_MAX_FIELDS :
              DecodedInto(NextState, command)[p] = DecodedInto(Cur, command)[p]

\* ------------------------------------------------------------------------
\* C26
\* ------------------------------------------------------------------------

\* the bytes of the parsed frame: its marker and the payload that the parse
\* routine has read, from frameStart up to the cursor
MarkerAndPayload == 1 + (log.private.logPos - frameStart)

\* C26: the byte length that is recorded in the size statistics and passed
\* to onFrameReady for a well-formed frame is one marker byte plus the
\* payload bytes of the frame, whether the frame is followed by the marker of
\* another frame or by a clean end of the input.
C26_FrameSizeIsMarkerPlusPayload ==
    (AwaitingVerdict /\ AtDataFrameCompleted(Cur)) =>
        LET n == NextState
            before == log.stats.frame[lastFrameType]
            after == n.log.stats.frame[lastFrameType]
            call == n.calls[Len(n.calls)]
        IN
        /\ after.bytes = before.bytes + MarkerAndPayload
        /\ \A k \in DOMAIN before.sizeCount :
              after.sizeCount[k] = before.sizeCount[k] + (IF k = MarkerAndPayload THEN 1 ELSE 0)
        /\ (Len(n.calls) > Len(calls) /\ IsFrameCall(call)) => call.frameSize = MarkerAndPayload

\* ------------------------------------------------------------------------
\* Files of sessions that flightLogParse may refuse
\* ------------------------------------------------------------------------

\* the largest number of pieces after the header of such a session
MaxRefusedChunks == 2

\* headers without and with the names of the main fields
RefusedHeaders == {<<>>, <<LineFieldGName>>, HeaderMain}

\* a keyframe, a keyframe cut short, a byte that is no marker
RefusedChunks == {<<MarkerI, 1, 1>>, <<MarkerI, 1>>, <<2>>}

InitRefused ==
    InitFiles({Session(h, d) : h \in RefusedHeaders,
                               d \in Concatenations(RefusedChunks, MaxRefusedChunks)},
              NullReads)

SpecRefused == InitRefused /\ [][NextSessions]_vars

\* ------------------------------------------------------------------------
\* C27
\* ------------------------------------------------------------------------

\* the session region of the call holds no frame marker outside its header
\* lines
NoMarkerInRegion ==
    FirstFrameMarker(log.private.data, log.private.logStart, log.private.logEnd)
        = log.private.logEnd

\* the loop is about to read the first frame marker of the region, and no
\* line of the header has named the main fields
AtFirstMarkerUnnamed == InParse /\ AtHeaderFinalize(Cur) /\ log.mainFieldCount = 0

\* C27: flightLogParse returns false without invoking any callback when the
\* session index is out of range, when the session region ends before a
\* frame marker is found, and when the first frame marker is reached with no
\* main field names defined; for a session index out of range the statistics
\* and the decoder state are left as they were.
C27_RefusalsWithoutCallbacks ==
    /\ AtParseBegin(Cur) =>
          \A logIndex \in {-1, log.logCount, log.logCount + 1}, rawFlag \in BOOLEAN :
              LET n == flightLogParseEntry(Cur, logIndex, rawFlag) IN
              /\ n.pc = "failed"
              /\ n.calls = Append(calls, ParseCall(logIndex))
              /\ n.log = log
    /\ (InParse /\ NoMarkerInRegion) =>
          /\ ParseCalls = <<>>
          /\ parserState = PARSER_STATE_HEADER
          /\ pc \in {"loop", "failed"}
          /\ AtHeaderEof(Cur) => NextState.pc = "failed" /\ NextState.calls = calls
    /\ AtFirstMarkerUnnamed =>
          /\ ParseCalls = <<>>
          /\ NextState.pc = "failed"
          /\ NextState.calls = calls
    /\ (InParse /\ pc = "failed") => ParseCalls = <<>>

\* a call with a session index in range has returned false at the first
\* frame marker of a session whose header names no main field, after a call
\* with a session index out of range
C27_Witness ==
    /\ InParse /\ pc = "failed"
    /\ ~NoMarkerInRegion
    /\ log.mainFieldCount = 0
    /\ Peek(Cur) = MarkerI
    /\ \E j \in 1..(LastParseAt - 1) :
          IsParseCall(calls[j]) /\ calls[j].logIndex \notin 0..(log.logCount - 1)

\* ------------------------------------------------------------------------
\* C28
\* ------------------------------------------------------------------------

\* flightLogParse has returned, or the process has ended in it
Ended == Returned(Cur)

\* where the loop stands between two examinations: a frame awaits its
\* verdict (3), a byte is to be read with no frame before it (2), a byte has
\* been read and is about to be examined (1)
Phase ==
    IF pc = "begin" THEN 1 ELSE IF lastFrameType = NULL THEN 2 ELSE 3

\* a natural number that falls with every step of the loop: in the HEADER
\* state the bytes from the cursor to the end of the region, in the DATA
\* state the bytes from the start offset of the frame or byte examined last
\* to the end of the region, each counted four times, and the phase
Rank ==
    IF Ended THEN 0
    ELSE IF parserState = PARSER_STATE_HEADER
    THEN 4 * (log.private.logEnd - log.private.logPos) + 3
    ELSE 4 * (log.private.logEnd - frameStart) + Phase

\* a byte has been read in the DATA state and is about to be examined, as a
\* frame marker or as a byte that is none
AboutToExamine == pc = "begin" /\ parserState = PARSER_STATE_DATA /\ command # EOF

\* C28: flightLogParse terminates on every finite session region: in the
\* DATA state the start offset of the frame examined strictly increases from
\* one examined frame or byte to the next, also across the rewind after a
\* corrupt frame, and every step of the loop brings it nearer to the end of
\* the input (a natural number falls with every step).
C28_ParseTerminates ==
    [][/\ Rank' < Rank
       /\ Rank' >= 0
       /\ AboutToExamine => frameStart' > frameStart]_vars

\* a frame has been reported corrupt, the loop has rewound and gone on, and
\* flightLogParse has returned true
C28_Witness ==
    /\ pc = "done"
    /\ \E j \in 1..Len(calls) : IsCorruptCall(calls[j]) /\ j < Len(calls)

\* ------------------------------------------------------------------------
\* The state machine of the skipped-iteration count
\* ------------------------------------------------------------------------

\* values of atoi for the lines 'I interval' and 'P interval'
StoredI == {-1, 0, 1, 2, 4}
StoredPNum == {-1, 0, 1, 2, 3}
StoredPDenom == {-2, 0, 1, 2, 4}

\* iteration values of the previous frame: small ones, and the ends of the
\* ranges of int32_t and uint32_t
PreviousIterations == {0, 1, 2, 3, 6, 2147483646, -2, -1}

InitIntervals ==
    \E previousIteration \in PreviousIterations, i \in StoredI,
       num \in StoredPNum, denom \in StoredPDenom :
        \E m \in {MachineCounting(previousIteration, i, num, denom)} :
            /\ raw = m.raw
            /\ log = m.log
            /\ calls = m.calls
            /\ parserState = m.parserState
            /\ lastFrameType = m.lastFrameType
            /\ frameStart = m.frameStart
            /\ prematureEof = m.prematureEof
            /\ command = m.command
            /\ pc = m.pc

CountSkipped ==
    \E m \in {Cur} :
        /\ AtCountSkipped(m)
        /\ \E result \in shouldHaveFrameResults(m.log, m.calls[1].frameIndex) :
              Set(CountSkippedStep(m, result))

NextIntervals == CountSkipped

SpecIntervals == InitIntervals /\ [][NextIntervals]_vars

\* ------------------------------------------------------------------------
\* C29
\* ------------------------------------------------------------------------

\* iteration indexes that are multiples of the keyframe interval
MultiplesOfI == {k * log.frameIntervalI : k \in 0..3}

\* the should-have-frame test, as the specification words it, is defined and
\* met for the iteration index x
PassesTest(x) ==
    /\ log.frameIntervalPDenom # 0
    /\ LET r == CRem(CRem(x, log.frameIntervalI) + log.frameIntervalPNum - 1,
                     log.frameIntervalPDenom)
       IN r < log.frameIntervalPNum

\* C29: the count of skipped iterations at the start of the parse of an I or
\* P frame ends and is smaller than the keyframe interval I, for every
\* iteration value of the previous frame and for every I, P_num and P_denom
\* that the header lines 'I interval' and 'P interval' can store; every
\* iteration index that is a multiple of I passes the should-have-frame test.
C29_SkippedCountBelowInterval ==
    /\ pc # "fault"
    /\ calls[1].skippedFrames < log.frameIntervalI
    /\ \A x \in MultiplesOfI : PassesTest(x)

\* ------------------------------------------------------------------------
\* C30
\* ------------------------------------------------------------------------

\* the offset that parseHeaderLine looks at for the space, once the 'H' of
\* the line has been read
SpacePeekOffset == ReadCommand(Cur).log.private.logPos

\* C30: during flightLogParse the cursor stays within the session selected
\* and no byte at or beyond the end of the session is looked at: the bytes
\* that readChar returns, the byte that parseHeaderLine looks at for the
\* space after 'H' and the bytes of the line that it copies lie in
\* [logStart, logEnd), and unreadChar never moves the cursor before logStart.
C30_CursorWithinSession ==
    InParse =>
        /\ log.private.logStart <= log.private.logPos
        /\ log.private.logPos <= log.private.logEnd
        /\ AtHeaderLine(Cur) => SpacePeekOffset < log.private.logEnd

\* ------------------------------------------------------------------------
\* The record being decoded into
\* ------------------------------------------------------------------------

\* the loop is about to parse a main frame (I or P)
AboutToParseMain ==
    AtDataParseFrame(Cur) /\ U8(command) \in {MarkerI, MarkerP}

\* the ring slots referenced as previous and previous-previous, when set
ReferencedSlots ==
    {log.private.mainHistory[2], log.private.mainHistory[3]} \ {NULL}

\* C31: in every reachable state the slot being decoded into (current) is
\* one of the three ring slots and differs from the slots referenced as
\* previous and previous-previous whenever those are set; so parsing a main
\* frame, also one that is judged corrupt afterwards, leaves the referenced
\* records and the three references as they were.
C31_CurrentIsFreeSlot ==
    /\ log.private.mainHistory[1] \in 1..3
    /\ ReferencedSlots \subseteq 1..3
    /\ log.private.mainHistory[1] \notin ReferencedSlots
    /\ AboutToParseMain =>
          /\ NextState.log.private.mainHistory = log.private.mainHistory
          /\ \A slot \in ReferencedSlots :
                NextState.log.private.blackboxHistoryRing[slot]
                    = log.private.blackboxHistoryRing[slot]

\* a P frame is parsed while previous and previous-previous refer to two
\* different records, and the parse changes the record in the current slot
C31_Witness ==
    /\ AboutToParseMain /\ U8(command) = MarkerP
    /\ Cardinality(ReferencedSlots) = 2
    /\ NextState.log.private.blackboxHistoryRing[log.private.mainHistory[1]]
          # log.private.blackboxHistoryRing[log.private.mainHistory[1]]

\* ------------------------------------------------------------------------
\* Sessions that mix main, navigation and event frames
\* ------------------------------------------------------------------------

\* the most chunks of a mixed session
MaxMixedFrames == 4

\* the header of the mixed sessions: two main fields whose P frames count
\* the iteration and extrapolate the time, two navigation fields relative to
\* the home position, two navigation-home fields
HeaderMixed ==
    <<LineFieldIName, LineFieldPPredictor, LineFieldPEncoding,
      LineFieldGName, LineFieldGPredictor, LineFieldHName>>

\* the frames of the mixed sessions: a keyframe, a P frame, a navigation
\* frame, two navigation-home frames, a sync-beep event, and a byte that is
\* no marker
MixedChunks ==
    {<<MarkerI, 1, 1>>, <<MarkerP, 1>>, <<MarkerG, 2, 2>>, <<MarkerH, 2, 4>>,
     <<MarkerH, 4, 2>>, <<MarkerE, FLIGHT_LOG_EVENT_SYNC_BEEP, 0>>, <<128>>}

MixedFiles == {Session(HeaderMixed, d) : d \in Concatenations(MixedChunks, MaxMixedFrames)}

InitMixed == InitFiles(MixedFiles, {Unmapped})

SpecMixed == InitMixed /\ [][NextSessions]_vars

\* the markers of the frames that are no main frames
SideMarkers == {MarkerG, MarkerH, MarkerE}

\* what the decoding of main frames depends on: the validity of the main
\* stream, the three references, the three records, the field statistics
MainState(l) ==
    <<l.private.mainStreamIsValid, l.private.mainHistory,
      l.private.blackboxHistoryRing, l.stats.field>>

\* the published navigation-home record and its validity
PublishedHome(l) == <<l.private.gpsHomeHistory[2], l.private.gpsHomeIsValid>>

\* the loop is about to parse a G, H or E frame
AboutToParseSide == AtDataParseFrame(Cur) /\ U8(command) \in SideMarkers

\* the loop is about to complete a well-formed G, H or E frame
AboutToCompleteSide == AtDataFrameCompleted(Cur) /\ lastFrameType \in SideMarkers

\* the loop is about to judge an H frame corrupt
AboutToRejectHome == AtDataFrameCorrupt(Cur) /\ lastFrameType = MarkerH

\* C32: parsing a G, H or E frame and completing it when it is well-formed
\* leave the main-stream-valid flag, the three main history references and
\* records and the per-field statistics as they were, so the main frames
\* after it are decoded as if it were absent; parsing an H frame and judging
\* it corrupt leave the published navigation-home record and the
\* navigation-home-valid flag as they were.
C32_SideFramesLeaveMainState ==
    /\ AboutToParseSide => MainState(NextState.log) = MainState(log)
    /\ AboutToCompleteSide => MainState(NextState.log) = MainState(log)
    /\ (AtDataParseFrame(Cur) /\ U8(command) = MarkerH) =>
          PublishedHome(NextState.log) = PublishedHome(log)
    /\ AboutToRejectHome => PublishedHome(NextState.log) = PublishedHome(log)

\* an H frame is completed between a valid keyframe and what follows, with
\* the main stream valid and both references set
C32_Witness ==
    /\ AboutToCompleteSide /\ lastFrameType = MarkerH
    /\ log.private.mainStreamIsValid
    /\ log.private.mainHistory[2] # NULL
    /\ PublishedHome(NextState.log) # PublishedHome(log)

\* an H frame whose trial parse differs from the published home is about to
\* be judged corrupt while a published home is valid
C32_WitnessCorruptHome ==
    /\ AboutToRejectHome
    /\ log.private.gpsHomeIsValid
    /\ log.private.gpsHomeHistory[1] # log.private.gpsHomeHistory[2]

====
